---- MODULE Spec2Model ----
(***************************************************************************)
(* The granular audio engine (AudioEngine): the engine facade (resume,     *)
(* updateGlobalParams, updateOrbs), the lookahead scheduler, the glitch    *)
(* state machine, the grain synthesizer and the tempo detection            *)
(* (detectBPM), with the App's batch import handlers that call them.       *)
(*                                                                         *)
(* Numbers are fixed point.  Times, durations and buffer offsets are in    *)
(* tenths of a ms; every fraction (chaos, space, density, position, depth,   *)
(* volume, an LFO sample, a playback rate, a Math.random() draw) is in     *)
(* thousandths; an LFO rate is in millihertz; a tempo is in whole BPM.     *)
(* A product of two fixed point numbers is rounded down.                   *)
(*                                                                         *)
(* JavaScript runs every callback to completion, so the scheduler tick is  *)
(* a sequence of steps (pc) that no facade call can interleave with.       *)
(***************************************************************************)
EXTENDS Integers, Sequences, FiniteSets, TLC

VARIABLES
  ctxState,          \* ctx.state: "suspended" or "running"
  awaiting,          \* resume() calls parked at `await this.ctx.resume()`
  isPlaying,         \* AudioEngine.isPlaying
  schedulerInterval, \* AudioEngine.schedulerInterval: a timer id, 0 for null
  timers,            \* the window's live interval timers (ids)
  timerSeq,          \* the id the last setInterval returned
  orbs,              \* AudioEngine.orbs: a Map, its entries in insertion order
  globalParams,      \* AudioEngine.globalParams
  glitchState,       \* AudioEngine.glitchState
  nextGrainTime,     \* AudioEngine.nextGrainTime: orb id -> cursor, NoEntry if absent
  now,               \* ctx.currentTime as last read by a tick
  pc,                \* position of the scheduler callback: idle, loop, advance, hung
  cur,               \* index in orbs of the orb forEach is visiting
  nextTime,          \* the local nextTime of the visit
  voice,             \* the voice the scheduleGrain call just started (NoVoice: none)
  lastStart,         \* orb id -> start time last handed to scheduleGrain
  fresh,             \* ids registered by updateOrbs and not yet visited
  stutterFirst,      \* the orb and offset of the first voice of the running STUTTER burst
  orbsList,          \* the argument of the last updateOrbs call
  resumed,           \* resume() calls that have returned
  calls,             \* updateGlobalParams and updateOrbs calls made
  fx,                \* the targets last programmed on the delay network
  paramsArg,         \* the argument of the last updateGlobalParams call
  upload,            \* App: the batch import in progress (handler, files, position)
  appOrbs,           \* App: the orbs state, as the imports appended to it
  decodeLog,         \* the files handed to decodeAudio, in call order
  canvas,            \* NebulaCanvas: the ids of orbs, connections, dragState, pointers down
  arg,               \* the arguments of a call of detectBPM or of the interval formula
  ret                \* what that call returned

vars == <<ctxState, awaiting, isPlaying, schedulerInterval, timers, timerSeq,
          orbs, globalParams, glitchState, nextGrainTime, now, pc, cur,
          nextTime, voice, lastStart, fresh, stutterFirst, orbsList, resumed, calls,
          fx, paramsArg, upload, appOrbs, decodeLog, canvas, arg, ret>>

----------------------------------------------------------------------------
(* Units and bounds *)

\* One second, in the unit of time (0.1 ms).
Sec == 10 * 1000

\* The clock stops at MaxTime timer periods.
MaxTime == 8
MaxResume == 2
\* The facade's update calls in one run.
MaxCalls == 3
MaxOrbs == 2
RatioFuel == 12

\* A horizon of 50 ms.
scheduleAheadTime_Short == Sec \div 20

\* lookahead = 25.0 ms; scheduleAheadTime = 0.1 s
lookahead == Sec \div 40
scheduleAheadTime == Sec \div 10

\* What the clock may advance by between two ticks: the timer's
\* cadence, and a stall longer than the horizon.
ClockSteps == {lookahead, 6 * lookahead}

\* Values Math.random() takes, in thousandths (0 <= r < 1).
Rnd == {0, 500, 750}

NoEntry == 0 - 1
Unset == 0 - Sec

OrbIds == {"a", "b"}

----------------------------------------------------------------------------
(* Arithmetic *)

Abs(x) == IF x < 0 THEN 0 - x ELSE x
Sign(x) == IF x > 0 THEN 1 ELSE IF x < 0 THEN 0 - 1 ELSE 0
Max(a, b) == IF a > b THEN a ELSE b
Min(a, b) == IF a < b THEN a ELSE b

\* The JavaScript % operator: the remainder has the sign of the dividend.
JsRem(a, b) == IF a >= 0 THEN a % b ELSE 0 - ((0 - a) % b)

\* JavaScript numbers are binary floating point: a sum is rounded to the
\* nearest number with a significand of so many bits (53 in the program, ties
\* to the even significand).  The model keeps the rounding and narrows the
\* significand, so that the cases of rounding fall on numbers TLC handles.
MantissaBits == 16

\* The spacing of the representable numbers at the magnitude a.
RECURSIVE FpSpacing(_, _)
FpSpacing(a, step) ==
  IF a \div step < 2^MantissaBits THEN step ELSE FpSpacing(a, 2 * step)

\* x rounded to the nearest representable number.
FpRound(x) ==
  LET a == Abs(x)
      step == FpSpacing(a, 1)
      q == a \div step
      rest == a - q * step
      up == 2 * rest > step \/ (2 * rest = step /\ q % 2 = 1)
  IN  Sign(x) * (IF up THEN q + 1 ELSE q) * step

\* Math.sqrt of a fraction in thousandths, in thousandths.
\* By bisection: lo * lo <= n < hi * hi.
RECURSIVE SqrtBetween(_, _, _)
SqrtBetween(n, lo, hi) ==
  IF hi - lo <= 1 THEN lo
  ELSE LET mid == (lo + hi) \div 2
       IN  IF mid * mid <= n THEN SqrtBetween(n, mid, hi) ELSE SqrtBetween(n, lo, mid)
\* (of a fraction that is at most 1)
SqrtMilli(d) == SqrtBetween(d * 1000, 0, 1001)

\* Math.sin over one turn, sampled every twelfth of a turn, in thousandths.
SinTable == <<0, 500, 866, 1000, 866, 500, 0, -500, -866, -1000, -866, -500>>
\* Math.sin(t * f * 2 * Math.PI) for a time t and f in millihertz: t * f is
\* the phase in turns, times Sec * 1000.
SinTurns(t, f) == SinTable[((((t * f) % (Sec * 1000)) * 12) \div (Sec * 1000)) + 1]

\* 2^(k/12) for k = 0..11, in thousandths.
SemitoneTable == <<1000, 1059, 1122, 1189, 1260, 1335, 1414, 1498, 1587, 1682, 1782, 1888>>
\* Math.pow(2, cents / 1200), in thousandths.
RECURSIVE Pow2Cents(_)
Pow2Cents(c) ==
  IF c < 0 THEN Pow2Cents(c + 1200) \div 2
  ELSE IF c >= 1200 THEN 2 * Pow2Cents(c - 1200)
  ELSE SemitoneTable[(c \div 100) + 1]

----------------------------------------------------------------------------
(* Inputs: the parameter snapshots and orbs the facade is called with *)

\* GlobalParams snapshots: the constructor's default; chaos on the gate's
\* boundary; full chaos in free-run and under beat-sync; and a masterBpm of 0
\* under beat-sync, which updateGlobalParams accepts as it accepts any number.
GpDefault ==
  [chaos |-> 0, space |-> 300, outputGain |-> 1000, masterBpm |-> 120, beatSync |-> FALSE]
GpEdge ==
  [chaos |-> 50, space |-> 300, outputGain |-> 1000, masterBpm |-> 120, beatSync |-> FALSE]
GpChaos ==
  [chaos |-> 1000, space |-> 300, outputGain |-> 1000, masterBpm |-> 120, beatSync |-> FALSE]
GpSync ==
  [chaos |-> 1000, space |-> 1000, outputGain |-> 1000, masterBpm |-> 120, beatSync |-> TRUE]
GpBpm0 ==
  [chaos |-> 0, space |-> 300, outputGain |-> 1000, masterBpm |-> 0, beatSync |-> TRUE]

\* Beat-sync at a tempo below the range of the tempo field.
GpSlow ==
  [chaos |-> 0, space |-> 300, outputGain |-> 1000, masterBpm |-> 5, beatSync |-> TRUE]
\* Beat-sync at 120 BPM, without chaos.
GpBeat120 ==
  [chaos |-> 0, space |-> 300, outputGain |-> 1000, masterBpm |-> 120, beatSync |-> TRUE]
\* A space above 1.
GpWide ==
  [chaos |-> 0, space |-> 2000, outputGain |-> 1000, masterBpm |-> 120, beatSync |-> FALSE]

\* GranularParams: DEFAULT_GRANULAR_PARAMS; a full-depth pitch LFO with the
\* full random detune; a full-depth position LFO at the start of the buffer.
ParamsDefault ==
  [grainSize |-> 1000, grainDensity |-> 500, position |-> 0, randomPitch |-> 200,
   lfoRate |-> 500, lfoDepth |-> 0, volume |-> 1000, lfoTarget |-> "none"]
ParamsPitch ==
  [grainSize |-> 1000, grainDensity |-> 500, position |-> 500, randomPitch |-> 1000,
   lfoRate |-> 10000, lfoDepth |-> 1000, volume |-> 1000, lfoTarget |-> "pitch"]
ParamsPosition ==
  [grainSize |-> 1000, grainDensity |-> 250, position |-> 0, randomPitch |-> 0,
   lfoRate |-> 5000, lfoDepth |-> 1000, volume |-> 1000, lfoTarget |-> "position"]

\* An AudioOrb: buffer is the decoded buffer's duration (0: no buffer),
\* detectedBpm is 0 when absent.
Orb(id, params, buffer, detectedBpm) ==
  [id |-> id, params |-> params, buffer |-> buffer, detectedBpm |-> detectedBpm]

OrbA == Orb("a", ParamsDefault, 2 * Sec, 90)
OrbAPitch == Orb("a", ParamsPitch, 2 * Sec, 170)
\* The smallest grain size of the size slider, under a full-depth size LFO.
ParamsSize ==
  [grainSize |-> Sec \div 100, grainDensity |-> 500, position |-> 0, randomPitch |-> 0,
   lfoRate |-> 10 * 1000, lfoDepth |-> 1000, volume |-> 1000, lfoTarget |-> "grainSize"]
OrbSize == Orb("a", ParamsSize, Sec, 0)
\* Orbs of a given density: on both sides of each subdivision boundary, and
\* one whose density LFO swings the density below 0 and above 1.
BeatDensities == {249, 250, 499, 500, 600, 749, 750}
OrbDensity(d) ==
  Orb("a", [ParamsDefault EXCEPT !.grainDensity = d, !.randomPitch = 0], Sec, 0)
OrbDensityLfo ==
  Orb("a", [ParamsDefault EXCEPT !.randomPitch = 0, !.lfoRate = 8000, !.lfoDepth = 1000,
                                 !.lfoTarget = "density"], Sec, 0)
OrbB == Orb("b", ParamsPosition, Sec, 0)
\* An orb whose file is not decoded yet.
OrbEmpty == Orb("a", ParamsDefault, 0, 90)

\* Every list of at most MaxOrbs orbs drawn from choices.
ListsOf(choices) ==
  UNION { [1..n -> choices] : n \in 0..MaxOrbs }

\* The draws of one Math.random() call: none to choose when the call is not
\* made or its value is not used.
Draws(used) == IF used THEN Rnd ELSE {0}

----------------------------------------------------------------------------
(* The orb Map *)

IdsOf(m) == { m[i].id : i \in 1..Len(m) }
IndexOf(m, id) == CHOOSE i \in 1..Len(m) : m[i].id = id

\* Map.set: a new key is appended, an existing key keeps its place.
MapSet(m, orb) ==
  IF orb.id \in IdsOf(m)
    THEN [m EXCEPT ![IndexOf(m, orb.id)] = orb]
    ELSE Append(m, orb)

RECURSIVE SetAll(_, _, _)
SetAll(m, list, i) ==
  IF i > Len(list) THEN m ELSE SetAll(MapSet(m, list[i]), list, i + 1)

\* updateOrbs without this.orbs.clear(): the list is merged into the old Map.
RegisterOrbs_NoClear(old, list) == SetAll(old, list, 1)

\* updateOrbs: this.orbs.clear(), then orbs.set(orb.id, orb) for each orb.
RegisterOrbs(old, list) == SetAll(<<>>, list, 1)

----------------------------------------------------------------------------
(* Glitch state machine *)

IdleGlitch == [active |-> FALSE, endTime |-> 0, mode |-> "NONE", frozenOffset |-> Unset]

\* The gate with >= for >.
ChaosGate_Inclusive(chaos) == chaos >= 50

\* if (this.globalParams.chaos > 0.05)
ChaosGate(chaos) == chaos > 50

\* r < 0.33 STUTTER, r < 0.66 REVERSE, else PITCH_JUMP.
PickMode(r) == IF r < 330 THEN "STUTTER" ELSE IF r < 660 THEN "REVERSE" ELSE "PITCH_JUMP"

\* The entry branch rolled whether or not a burst runs.
StartGlitch_Retrigger(g, gp, t, rRoll, rDur, rMode) ==
  IF ChaosGate(gp.chaos) /\ rRoll * 1000 < gp.chaos * 50
    THEN [active |-> TRUE, endTime |-> t + Sec \div 10 + (rDur * Sec) \div 5000,
          mode |-> PickMode(rMode), frozenOffset |-> Unset]
    ELSE g

\* The entry branch: rolled only when the gate is open and no burst runs.
StartGlitch(g, gp, t, rRoll, rDur, rMode) ==
  IF ChaosGate(gp.chaos) /\ ~g.active /\ rRoll * 1000 < gp.chaos * 50
    THEN [active |-> TRUE, endTime |-> t + Sec \div 10 + (rDur * Sec) \div 5000,
          mode |-> PickMode(rMode), frozenOffset |-> Unset]
    ELSE g

\* An expiry that leaves the frozen offset.
ExpireGlitch_KeepFrozen(g, t) ==
  IF g.active /\ t > g.endTime
    THEN [g EXCEPT !.active = FALSE, !.mode = "NONE"]
    ELSE g

\* An expiry that clears the flag and leaves the mode.
ExpireGlitch_KeepMode(g, t) ==
  IF g.active /\ t > g.endTime
    THEN [g EXCEPT !.active = FALSE, !.frozenOffset = Unset]
    ELSE g

\* The expiry branch, outside the chaos gate.
ExpireGlitch(g, t) ==
  IF g.active /\ t > g.endTime
    THEN [g EXCEPT !.active = FALSE, !.mode = "NONE", !.frozenOffset = Unset]
    ELSE g

\* The two blocks in the other order: expiry, then entry.
ManageGlitch_ExpiryFirst(g, gp, t, rRoll, rDur, rMode) ==
  StartGlitch(ExpireGlitch(g, t), gp, t, rRoll, rDur, rMode)

\* The expiry branch moved inside the chaos gate.
ManageGlitch_GatedExpiry(g, gp, t, rRoll, rDur, rMode) ==
  IF ChaosGate(gp.chaos)
    THEN ExpireGlitch(StartGlitch(g, gp, t, rRoll, rDur, rMode), t)
    ELSE g

\* The glitch block of scheduler(): entry, then expiry.
ManageGlitch(g, gp, t, rRoll, rDur, rMode) ==
  ExpireGlitch(StartGlitch(g, gp, t, rRoll, rDur, rMode), t)

Stuttering(g) == g.active /\ g.mode = "STUTTER"

----------------------------------------------------------------------------
(* Lookahead scheduler: the body of the per-orb fill loop *)

\* const bpm = this.globalParams.masterBpm || 120
BpmOr120(gp) == IF gp.masterBpm = 0 THEN 120 ELSE gp.masterBpm

\* The ratios of the beat-synced LFO, in eighths.
LfoRatios == <<1, 2, 4, 8, 12, 16, 24, 32>>

\* The for loop with <= for <: of two candidates as close, the later wins.
RECURSIVE SnapLoop_LastWins(_, _, _, _)
SnapLoop_LastWins(bpm, lfoFreq, i, best) ==
  IF i > Len(LfoRatios) THEN best[2]
  ELSE LET targetFreq == (bpm * 1000 * LfoRatios[i]) \div (60 * 8)
           dist == Abs(targetFreq - lfoFreq)
       IN  IF best[1] < 0 \/ dist <= best[1]
             THEN SnapLoop_LastWins(bpm, lfoFreq, i + 1, <<dist, targetFreq>>)
             ELSE SnapLoop_LastWins(bpm, lfoFreq, i + 1, best)

\* The for loop over ratios: best is <<minDist, closestFreq>>, minDist < 0
\* standing for Infinity; a later candidate wins only when strictly closer.
RECURSIVE SnapLoop(_, _, _, _)
SnapLoop(bpm, lfoFreq, i, best) ==
  IF i > Len(LfoRatios) THEN best[2]
  ELSE LET targetFreq == (bpm * 1000 * LfoRatios[i]) \div (60 * 8)
           dist == Abs(targetFreq - lfoFreq)
       IN  IF best[1] < 0 \/ dist < best[1]
             THEN SnapLoop(bpm, lfoFreq, i + 1, <<dist, targetFreq>>)
             ELSE SnapLoop(bpm, lfoFreq, i + 1, best)

\* The LFO frequency of a grain, in millihertz.
LfoFreq(orb, gp) ==
  IF gp.beatSync
    THEN SnapLoop(BpmOr120(gp), orb.params.lfoRate, 1, <<0 - 1, orb.params.lfoRate>>)
    ELSE orb.params.lfoRate

\* lfoVal = Math.sin(nextTime * lfoFreq * 2 * Math.PI) * orb.params.lfoDepth
LfoVal(orb, gp, t) == (SinTurns(t, LfoFreq(orb, gp)) * orb.params.lfoDepth) \div 1000

EffectiveDensity(orb, g, lfoVal) ==
  IF Stuttering(g) THEN 1000
  ELSE IF orb.params.lfoTarget = "density" THEN orb.params.grainDensity + lfoVal
  ELSE orb.params.grainDensity

\* The subdivision with each boundary on the lower side.
Subdivision_Inclusive(effectiveDensity) ==
  LET d == Max(0, Min(1000, effectiveDensity))
  IN  IF d <= 250 THEN 8 ELSE IF d <= 500 THEN 4 ELSE IF d <= 750 THEN 2 ELSE 1

\* The beat subdivision of a density, in eighths of a beat.
Subdivision(effectiveDensity) ==
  LET d == Max(0, Min(1000, effectiveDensity))
  IN  IF d < 250 THEN 8 ELSE IF d < 500 THEN 4 ELSE IF d < 750 THEN 2 ELSE 1

BeatInterval(gp, effectiveDensity) ==
  (((60 * Sec) \div BpmOr120(gp)) * Subdivision(effectiveDensity)) \div 8

\* The interval formula on the density as it comes.
FreeInterval_Unclamped(effectiveDensity) ==
  LET minInterval == Sec \div 100
      maxInterval == Sec \div 2
  IN  maxInterval - (SqrtMilli(effectiveDensity) * (maxInterval - minInterval)) \div 1000

FreeInterval(effectiveDensity) ==
  LET density == Max(10, Min(1000, effectiveDensity))
      minInterval == Sec \div 100
      maxInterval == Sec \div 2
  IN  maxInterval - (SqrtMilli(density) * (maxInterval - minInterval)) \div 1000

\* The step rule with a stutter that repeats on the spot.
CursorStep_FrozenStutter(g, gp, effectiveDensity, r) ==
  IF Stuttering(g) THEN 0
  ELSE IF gp.beatSync
    THEN LET interval == BeatInterval(gp, effectiveDensity)
         IN  interval + ((r - 500) * interval * 50) \div (1000 * 1000)
    ELSE Max(Sec \div 200, FreeInterval(effectiveDensity) + ((r - 500) * Sec) \div (100 * 1000))

\* What one iteration adds to nextTime; r is the Math.random() of its jitter.
CursorStep(g, gp, effectiveDensity, r) ==
  IF Stuttering(g) THEN Sec \div 20
  ELSE IF gp.beatSync
    THEN LET interval == BeatInterval(gp, effectiveDensity)
         IN  interval + ((r - 500) * interval * 50) \div (1000 * 1000)
    ELSE Max(Sec \div 200, FreeInterval(effectiveDensity) + ((r - 500) * Sec) \div (100 * 1000))

\* The stored cursor taken as it is, behind the clock or not.
StartCursor_NoSnap(cursor, currentTime) ==
  IF cursor = NoEntry \/ cursor = 0 THEN currentTime ELSE cursor

\* The stored cursor ignored: every visit starts at the clock.
StartCursor_Forget(cursor, currentTime) == currentTime

\* let nextTime = this.nextGrainTime.get(id) || currentTime, snapped to the
\* clock when behind it.
StartCursor(cursor, currentTime) ==
  LET nt == IF cursor = NoEntry \/ cursor = 0 THEN currentTime ELSE cursor
  IN  IF nt < currentTime THEN currentTime ELSE nt

----------------------------------------------------------------------------
(* Grain synthesizer: scheduleGrain *)

NoVoice ==
  [id |-> "", time |-> 0 - 1, rate |-> 0, offset |-> 0, size |-> 0, pan |-> 0,
   peak |-> 0, mode |-> "NONE"]

NoFirst == [id |-> "", offset |-> 0 - 1, raw |-> 0 - 1]

\* A ratio is num/den with den > 0.  A loop still running after RatioFuel
\* iterations is one that never exits (ok is FALSE): for a ratio of 0 the
\* doubling leaves it 0.
RECURSIVE HalveLoop(_, _, _)
HalveLoop(num, den, fuel) ==
  IF ~(2 * num > 3 * den) THEN [ok |-> TRUE, num |-> num, den |-> den]
  ELSE IF fuel = 0 THEN [ok |-> FALSE, num |-> num, den |-> den]
  ELSE HalveLoop(num, 2 * den, fuel - 1)

RECURSIVE DoubleLoop(_, _, _)
DoubleLoop(num, den, fuel) ==
  IF ~(4 * num < 3 * den) THEN [ok |-> TRUE, num |-> num, den |-> den]
  ELSE IF fuel = 0 THEN [ok |-> FALSE, num |-> num, den |-> den]
  ELSE DoubleLoop(2 * num, den, fuel - 1)

\* The first loop alone: a ratio below 0.75 is left as it is.
BeatRatio_HalveOnly(masterBpm, detectedBpm) ==
  HalveLoop(masterBpm, detectedBpm, RatioFuel)

\* let ratio = masterBpm / detectedBpm; while (ratio > 1.5) ratio /= 2;
\* while (ratio < 0.75) ratio *= 2
BeatRatio(masterBpm, detectedBpm) ==
  LET h == HalveLoop(masterBpm, detectedBpm, RatioFuel)
  IN  IF h.ok THEN DoubleLoop(h.num, h.den, RatioFuel) ELSE h

SyncsPitch(orb, gp) == gp.beatSync /\ orb.detectedBpm # 0

\* The two clamp lines: Math.sign(0) is 0.
ClampRate(playbackRate) ==
  LET r1 == IF Abs(playbackRate) < 50 THEN 50 * Sign(playbackRate) ELSE playbackRate
  IN  IF Abs(r1) > 4000 THEN 4000 * Sign(r1) ELSE r1

\* The playback rate with a pitch LFO of twice the swing.
RawRate_DeepLfo(orb, lfoVal, g, gp, ratio, rJump, rCents) ==
  LET base == IF orb.params.lfoTarget = "pitch" THEN 1000 + 2 * lfoVal ELSE 1000
      synced == IF SyncsPitch(orb, gp) THEN (base * ratio.num) \div ratio.den ELSE base
      glitched ==
        IF g.active /\ g.mode = "REVERSE" THEN 0 - synced
        ELSE IF g.active /\ g.mode = "PITCH_JUMP"
          THEN (IF rJump > 500 THEN synced * 2 ELSE synced \div 2)
        ELSE synced
      randomCents == ((rCents - 500) * orb.params.randomPitch * 24) \div (10 * 1000)
  IN  (glitched * Pow2Cents(randomCents)) \div 1000

\* The playback rate before the clamp.
RawRate(orb, lfoVal, g, gp, ratio, rJump, rCents) ==
  LET base == IF orb.params.lfoTarget = "pitch" THEN 1000 + lfoVal ELSE 1000
      synced == IF SyncsPitch(orb, gp) THEN (base * ratio.num) \div ratio.den ELSE base
      glitched ==
        IF g.active /\ g.mode = "REVERSE" THEN 0 - synced
        ELSE IF g.active /\ g.mode = "PITCH_JUMP"
          THEN (IF rJump > 500 THEN synced * 2 ELSE synced \div 2)
        ELSE synced
      randomCents == ((rCents - 500) * orb.params.randomPitch * 24) \div (10 * 1000)
  IN  (glitched * Pow2Cents(randomCents)) \div 1000

\* The scan offset before the wrap, and the frozen offset the call leaves.
\* In a STUTTER burst a frozen offset below 0 counts as unset.
ScanOffset(orb, lfoVal, g, rPos) ==
  LET position == IF orb.params.lfoTarget = "position"
                    THEN orb.params.position + lfoVal \div 2
                    ELSE orb.params.position
      offset == (position * orb.buffer) \div 1000
  IN  IF Stuttering(g)
        THEN IF g.frozenOffset < 0
               THEN [offset |-> offset, frozen |-> offset]
               ELSE [offset |-> g.frozenOffset, frozen |-> g.frozenOffset]
        ELSE [offset |-> offset + ((rPos - 500) * Sec) \div (20 * 1000), frozen |-> g.frozenOffset]

\* offset = offset % duration; if (offset < 0) offset += duration
\* The remainder is exact, the sum is rounded.
WrapOffset(offset, duration) ==
  LET m == JsRem(offset, duration)
  IN  IF m < 0 THEN FpRound(m + duration) ELSE m

\* The grain size without the STUTTER override.
GrainSize_NoStutter(orb, lfoVal, g) ==
  Max(Sec \div 100, IF orb.params.lfoTarget = "grainSize"
                      THEN orb.params.grainSize + (lfoVal * Sec) \div 5000
                      ELSE orb.params.grainSize)

\* The grain size without its floor.
GrainSize_Unclamped(orb, lfoVal, g) ==
  LET base == IF orb.params.lfoTarget = "grainSize"
                THEN orb.params.grainSize + (lfoVal * Sec) \div 5000
                ELSE orb.params.grainSize
  IN  IF Stuttering(g) THEN Sec \div 20 ELSE base

GrainSize(orb, lfoVal, g) ==
  LET base == IF orb.params.lfoTarget = "grainSize"
                THEN orb.params.grainSize + (lfoVal * Sec) \div 5000
                ELSE orb.params.grainSize
      glitched == IF Stuttering(g) THEN Sec \div 20 ELSE base
  IN  Max(Sec \div 100, glitched)

\* The volume modulated whatever the target.
PeakGain_Always(orb, lfoVal) == Max(0, orb.params.volume + lfoVal)

PeakGain(orb, lfoVal) ==
  Max(0, IF orb.params.lfoTarget = "volume" THEN orb.params.volume + lfoVal
         ELSE orb.params.volume)

\* panAmount = (Math.random() - 0.5) * 2 * space
PanAmount(gp, rPan) == ((rPan - 500) * 2 * gp.space) \div 1000

\* scheduleGrain without its first line: a voice is built on no buffer and
\* a STUTTER burst freezes its offset.
ScheduleGrain_NoGuard(orb, time, lfoVal, g, gp, rJump, rPos, rPan, rCents) ==
  [built |-> TRUE, hung |-> FALSE,
   voice |-> [NoVoice EXCEPT !.id = orb.id, !.time = time],
   glitch |-> IF Stuttering(g) /\ g.frozenOffset < 0 THEN [g EXCEPT !.frozenOffset = 0] ELSE g]

\* scheduleGrain(orb, time, lfoVal) with the glitch state g and its four
\* Math.random() draws.  built: a voice was started; hung: the call never returns.
ScheduleGrain(orb, time, lfoVal, g, gp, rJump, rPos, rPan, rCents) ==
  IF orb.buffer = 0
    THEN [built |-> FALSE, hung |-> FALSE, voice |-> NoVoice, glitch |-> g]
  ELSE
    LET ratio == IF SyncsPitch(orb, gp) THEN BeatRatio(gp.masterBpm, orb.detectedBpm)
                 ELSE [ok |-> TRUE, num |-> 1, den |-> 1]
    IN  IF ~ratio.ok
          THEN [built |-> FALSE, hung |-> TRUE, voice |-> NoVoice, glitch |-> g]
        ELSE
          LET scan == ScanOffset(orb, lfoVal, g, rPos)
          IN  [built |-> TRUE, hung |-> FALSE,
               voice |-> [id |-> orb.id, time |-> time,
                          rate |-> ClampRate(RawRate(orb, lfoVal, g, gp, ratio, rJump, rCents)),
                          offset |-> WrapOffset(scan.offset, orb.buffer),
                          size |-> GrainSize(orb, lfoVal, g),
                          pan |-> PanAmount(gp, rPan),
                          peak |-> PeakGain(orb, lfoVal),
                          mode |-> IF g.active THEN g.mode ELSE "NONE"],
               glitch |-> [g EXCEPT !.frozenOffset = scan.frozen]]

\* The end of scheduleGrain without the try: a rejected curve is an
\* exception that leaves the call before source.start.
Enveloping_NoCatch(v, curveOk) ==
  IF curveOk
    THEN [events |-> <<[op |-> "setValue", value |-> 0, at |-> v.time],
                       [op |-> "curve", value |-> v.peak, at |-> v.time, duration |-> v.size]>>,
          started |-> TRUE, start |-> v.time, offset |-> v.offset,
          stop |-> v.time + v.size + Sec \div 20]
    ELSE [events |-> <<[op |-> "setValue", value |-> 0, at |-> v.time]>>,
          started |-> FALSE, start |-> NoEntry, offset |-> NoEntry, stop |-> NoEntry]

\* The end of scheduleGrain for the voice v: the automation events of the
\* envelope gain, then source.start and source.stop.  curveOk is whether
\* setValueCurveAtTime accepts the call; when it throws, the catch block
\* schedules the two linear ramps.
Enveloping(v, curveOk) ==
  [events |->
     IF curveOk
       THEN <<[op |-> "setValue", value |-> 0, at |-> v.time],
              [op |-> "curve", value |-> v.peak, at |-> v.time, duration |-> v.size]>>
       ELSE <<[op |-> "setValue", value |-> 0, at |-> v.time],
              [op |-> "linearRamp", value |-> v.peak, at |-> v.time + v.size \div 2],
              [op |-> "linearRamp", value |-> 0, at |-> v.time + v.size]>>,
   started |-> TRUE, start |-> v.time, offset |-> v.offset,
   stop |-> v.time + v.size + Sec \div 20]

----------------------------------------------------------------------------
(* Delay network: the targets updateGlobalParams programs *)

\* Nothing programmed yet: the nodes are as the constructor created them.
NoFx == [delayTime |-> 0 - 1, send |-> 0 - 1, feedback |-> 0 - 1]

\* The dub delay line: this.ctx.createDelay(5.0)
MaxDelay == 5 * Sec

\* let delayTime = 0.5; under beat-sync (60 / masterBpm) * 0.75
DelayTime(params) ==
  IF params.beatSync THEN (45 * Sec) \div params.masterBpm ELSE Sec \div 2

\* The feedback target without its cap.
FeedbackGain_Unclamped(params) == (params.space * 800) \div 1000

\* const fb = Math.min(0.7, params.space * 0.8)
FeedbackGain(params) == Min(700, (params.space * 800) \div 1000)

\* The body of updateGlobalParams after the assignment of globalParams.  With
\* beatSync on and masterBpm 0 the delay time is 60 / 0 * 0.75 = Infinity, which
\* setTargetAtTime rejects with a TypeError: the call ends there and the send
\* and feedback targets are not programmed.
ProgramFx(old, params) ==
  IF params.beatSync /\ params.masterBpm = 0 THEN old
  ELSE [delayTime |-> DelayTime(params),
        send |-> params.space,
        feedback |-> FeedbackGain(params)]

----------------------------------------------------------------------------
(* Tempo detection: detectBPM *)

\* No call of a pure function at hand.
NoCall == [fn |-> "none"]

\* A decoded buffer as detectBPM sees it: its sample rate, and loud, the
\* indices (ascending) of the samples of the low-passed render above the 0.3
\* threshold.

\* The scan for peaks: a loud sample is a peak when it is the first one or
\* more than minDistance = 0.25 * sampleRate after the last peak.
RECURSIVE PeakScan(_, _, _, _)
PeakScan(loud, sampleRate, i, peaks) ==
  IF i > Len(loud) THEN peaks
  ELSE IF Len(peaks) = 0 \/ 4 * (loud[i] - peaks[Len(peaks)]) > sampleRate
    THEN PeakScan(loud, sampleRate, i + 1, Append(peaks, loud[i]))
    ELSE PeakScan(loud, sampleRate, i + 1, peaks)

\* intervals[i] = peaks[i] - peaks[i-1]
Intervals(peaks) == [i \in 1..(Len(peaks) - 1) |-> peaks[i + 1] - peaks[i]]

\* Math.round(interval / 1000) * 1000
Bucket(interval) == ((interval + 500) \div 1000) * 1000

\* The histogram and its scan: for..in visits the integer keys in ascending
\* order and a later key wins only with a strictly larger count.  Without
\* intervals bestInterval stays intervals[0], undefined (0 here).
BestInterval(intervals) ==
  IF Len(intervals) = 0 THEN 0
  ELSE LET keys == {Bucket(intervals[i]) : i \in 1..Len(intervals)}
           Count(k) == Cardinality({i \in 1..Len(intervals) : Bucket(intervals[i]) = k})
       IN  CHOOSE k \in keys :
             \A k2 \in keys : Count(k) > Count(k2) \/ (Count(k) = Count(k2) /\ k <= k2)

\* The first loop left out.
FoldUp_None(num, den) == <<num, den>>

\* while (finalBpm < 70) finalBpm *= 2, on the tempo num/den
RECURSIVE FoldUp(_, _)
FoldUp(num, den) == IF num < 70 * den THEN FoldUp(2 * num, den) ELSE <<num, den>>

\* while (finalBpm > 180) finalBpm /= 2
RECURSIVE FoldDown(_, _)
FoldDown(num, den) == IF num > 180 * den THEN FoldDown(num, 2 * den) ELSE <<num, den>>

\* Math.round(finalBpm) || 120
RoundBpm(num, den) ==
  LET r == (2 * num + den) \div (2 * den)
  IN  IF r = 0 THEN 120 ELSE r

\* The analysis that answers 0 where the code answers 120.
Analyse_NoFallback(buffer) ==
  LET peaks == PeakScan(buffer.loud, buffer.sampleRate, 1, <<>>)
      bestInterval == BestInterval(Intervals(peaks))
  IN  IF Len(peaks) < 2 \/ bestInterval = 0 THEN 0
      ELSE LET up == FoldUp(60 * buffer.sampleRate, bestInterval)
               down == FoldDown(up[1], up[2])
           IN  RoundBpm(down[1], down[2])

\* The body of the try block once the render is there.
Analyse(buffer) ==
  LET peaks == PeakScan(buffer.loud, buffer.sampleRate, 1, <<>>)
  IN  IF Len(peaks) < 2 THEN 120
      ELSE LET bestInterval == BestInterval(Intervals(peaks))
           IN  IF bestInterval = 0 THEN 120
               ELSE LET up == FoldUp(60 * buffer.sampleRate, bestInterval)
                        down == FoldDown(up[1], up[2])
                    IN  RoundBpm(down[1], down[2])

\* detectBPM that lets an error of the analysis escape.
DetectBPM_Rethrow(buffer, fault) ==
  IF fault # "none" THEN [threw |-> TRUE, value |-> 0]
  ELSE [threw |-> FALSE, value |-> Analyse(buffer)]

\* detectBPM(buffer).  fault names the step of the try block that raises an
\* error ("none": no step does): the catch logs it and returns 120.
DetectBPM(buffer, fault) ==
  IF fault # "none" THEN [threw |-> FALSE, value |-> 120]
  ELSE [threw |-> FALSE, value |-> Analyse(buffer)]

\* Inputs: click tracks of up to MaxPeaks clicks at a ground-truth tempo, the
\* k-th click on the sample nearest below its time, and one click that is
\* loud over three samples.
MaxPeaks == 3
TruthBpms == {30, 60, 100, 120, 128, 150, 200, 300}
SampleRates == {8000, 44100, 48000}
Faults == {"none", "context", "render", "scan"}

ClickTrack(truth, sampleRate, n) ==
  [sampleRate |-> sampleRate,
   loud |-> [k \in 1..n |-> ((k - 1) * 60 * sampleRate) \div truth]]

BpmCalls ==
  {[fn |-> "detectBPM", buffer |-> ClickTrack(t, sr, n), fault |-> f, truth |-> t, clicks |-> n] :
     t \in TruthBpms, sr \in SampleRates, n \in 0..MaxPeaks, f \in Faults}
  \cup
  {[fn |-> "detectBPM", buffer |-> [sampleRate |-> sr, loud |-> <<100, 101, 102>>],
    fault |-> f, truth |-> 0, clicks |-> 1] : sr \in SampleRates, f \in Faults}

\* A call of detectBPM runs to its return.
CallDetectBPM ==
  /\ arg.fn = "detectBPM"
  /\ ret = NoCall
  /\ ret' = [fn |-> "detectBPM"] @@ DetectBPM(arg.buffer, arg.fault)
  /\ UNCHANGED <<ctxState, awaiting, isPlaying, schedulerInterval, timers, timerSeq,
                 orbs, globalParams, glitchState, nextGrainTime, now, pc, cur,
                 nextTime, voice, lastStart, fresh, stutterFirst, orbsList, resumed,
                 calls, fx, paramsArg, upload, appOrbs, decodeLog, canvas, arg>>

----------------------------------------------------------------------------
(* The free-run interval formula, applied to two densities *)

\* Effective densities: below, at and above the bounds 0.01 and 1, and between.
FreeDensities ==
  {0 - 500, 0, 5, 10, 11, 50, 100, 250, 500, 750, 999, 1000, 1001, 1500, 2000}

IntervalCalls == {[fn |-> "interval", d1 |-> a, d2 |-> b] : a, b \in FreeDensities}

CallFreeInterval ==
  /\ arg.fn = "interval"
  /\ ret = NoCall
  /\ ret' = [fn |-> "interval", i1 |-> FreeInterval(arg.d1), i2 |-> FreeInterval(arg.d2)]
  /\ UNCHANGED <<ctxState, awaiting, isPlaying, schedulerInterval, timers, timerSeq,
                 orbs, globalParams, glitchState, nextGrainTime, now, pc, cur,
                 nextTime, voice, lastStart, fresh, stutterFirst, orbsList, resumed,
                 calls, fx, paramsArg, upload, appOrbs, decodeLog, canvas, arg>>

----------------------------------------------------------------------------
(* The step rule, applied to one iteration of the fill loop *)

\* What a call on the bench leaves alone: everything but ret.
benchFrame ==
  <<ctxState, awaiting, isPlaying, schedulerInterval, timers, timerSeq, orbs,
    globalParams, glitchState, nextGrainTime, now, pc, cur, nextTime, voice,
    lastStart, fresh, stutterFirst, orbsList, resumed, calls, fx, paramsArg,
    upload, appOrbs, decodeLog, canvas, arg>>

\* The glitch state of a burst of the given mode ("NONE": no burst).
GlitchIn(mode) ==
  [IdleGlitch EXCEPT !.active = (mode # "NONE"), !.mode = mode]

\* The tempo field's range is [10, 999]; densities and LFO samples (depth at
\* most 1) over their ranges; the draw of the jitter up to 0.999.
StepCalls ==
  {[fn |-> "step", mode |-> m, beatSync |-> s, masterBpm |-> b, grainDensity |-> d,
    lfoTarget |-> t, lfoVal |-> l, r |-> r] :
     m \in {"NONE", "STUTTER", "REVERSE", "PITCH_JUMP"},
     s \in BOOLEAN,
     b \in {10, 60, 120, 999},
     d \in {0, 5, 10, 249, 250, 500, 750, 1000},
     t \in {"none", "density"},
     l \in {0 - 1000, 0 - 500, 0, 500, 1000},
     r \in Rnd \cup {999}}

\* Lines 278-318 for one iteration: the effective density, then the step.
CallCursorStep ==
  /\ arg.fn = "step"
  /\ ret = NoCall
  /\ LET orb == Orb("a", [ParamsDefault EXCEPT !.grainDensity = arg.grainDensity,
                                               !.lfoDepth = 1000,
                                               !.lfoTarget = arg.lfoTarget], Sec, 0)
         g == GlitchIn(arg.mode)
         gp == [GpDefault EXCEPT !.masterBpm = arg.masterBpm, !.beatSync = arg.beatSync]
     IN  ret' = [fn |-> "step",
                 step |-> CursorStep(g, gp, EffectiveDensity(orb, g, arg.lfoVal), arg.r)]
  /\ UNCHANGED benchFrame

----------------------------------------------------------------------------
(* scheduleGrain on a grain without glitch and without random pitch *)

\* Tempos of the master clock over the range of its field, and detected
\* tempos (0: none); 135/90 and 90/120 are the two ends of [0.75, 1.5].
RateCalls ==
  {[fn |-> "rate", beatSync |-> s, masterBpm |-> b, detectedBpm |-> d, lfoVal |-> l] :
     s \in BOOLEAN,
     b \in {10, 45, 60, 67, 90, 120, 135, 136, 180, 999},
     d \in {0, 60, 90, 120, 180, 240},
     l \in {0, 500}}

\* One call of scheduleGrain for an orb under a pitch LFO; the draws are the
\* middle ones (no random detune, as randomPitch is 0).
CallScheduleGrain ==
  /\ arg.fn = "rate"
  /\ ret = NoCall
  /\ LET orb == Orb("a", [ParamsDefault EXCEPT !.randomPitch = 0, !.lfoDepth = 1000,
                                               !.lfoTarget = "pitch"],
                    2 * Sec, arg.detectedBpm)
         gp == [GpDefault EXCEPT !.masterBpm = arg.masterBpm, !.beatSync = arg.beatSync]
         grain == ScheduleGrain(orb, 0, arg.lfoVal, IdleGlitch, gp, 500, 500, 500, 500)
     IN  ret' = [fn |-> "rate",
                 synced |-> SyncsPitch(orb, gp),
                 ratio |-> IF SyncsPitch(orb, gp)
                             THEN BeatRatio(gp.masterBpm, orb.detectedBpm)
                             ELSE [ok |-> TRUE, num |-> 1, den |-> 1],
                 built |-> grain.built,
                 hung |-> grain.hung,
                 rate |-> grain.voice.rate]
  /\ UNCHANGED benchFrame

----------------------------------------------------------------------------
(* The LFO frequency of a grain *)

\* Tempos whose beat frequencies are whole millihertz, and LFO rates in
\* millihertz: below, on, between and above the candidates, with the ties.
LfoCalls ==
  {[fn |-> "lfo", beatSync |-> s, masterBpm |-> b, lfoRate |-> f] :
     s \in BOOLEAN,
     b \in {60, 96, 120, 240},
     f \in {0, 100, 125, 187, 188, 375, 750, 1000, 1250, 1750, 2500, 3500, 5000, 7000,
            10000, 14000, 20000}}

\* Lines 254-274 for one grain.
CallLfoFreq ==
  /\ arg.fn = "lfo"
  /\ ret = NoCall
  /\ LET orb == Orb("a", [ParamsDefault EXCEPT !.lfoRate = arg.lfoRate], Sec, 0)
         gp == [GpDefault EXCEPT !.masterBpm = arg.masterBpm, !.beatSync = arg.beatSync]
     IN  ret' = [fn |-> "lfo", lfoFreq |-> LfoFreq(orb, gp)]
  /\ UNCHANGED benchFrame

----------------------------------------------------------------------------
(* The targets of the LFO *)

\* Parameters in the middle of their ranges, so that a modulation of any
\* of them shows: position 0.5, size 0.1 s, density 0.5, volume 0.5.
ParamsMiddle ==
  [grainSize |-> Sec \div 10, grainDensity |-> 500, position |-> 500, randomPitch |-> 0,
   lfoRate |-> 500, lfoDepth |-> 1000, volume |-> 500, lfoTarget |-> "none"]

\* An orb parked on the middle of a buffer twice as long as OrbB's.
OrbMiddle == Orb("a", ParamsMiddle, 2 * Sec, 0)

\* The six targets and samples of an LFO of depth at most 1.
TargetCalls ==
  {[fn |-> "target", lfoTarget |-> t, lfoVal |-> l] :
     t \in {"none", "position", "grainSize", "density", "pitch", "volume"},
     l \in {0 - 1000, 0 - 500, 0 - 100, 0, 100, 300, 500, 1000}}

\* One iteration of the fill loop on a given LFO sample: the effective
\* density (lines 278-281) and the grain of scheduleGrain, with the middle
\* draws (no position jitter, no pan, no detune).
CallLfoTarget ==
  /\ arg.fn = "target"
  /\ ret = NoCall
  /\ LET orb == Orb("a", [ParamsMiddle EXCEPT !.lfoTarget = arg.lfoTarget], 2 * Sec, 0)
         grain == ScheduleGrain(orb, 0, arg.lfoVal, IdleGlitch, GpDefault, 500, 500, 500, 500)
     IN  ret' = [fn |-> "target",
                 built |-> grain.built,
                 density |-> EffectiveDensity(orb, IdleGlitch, arg.lfoVal),
                 offset |-> grain.voice.offset,
                 size |-> grain.voice.size,
                 peak |-> grain.voice.peak,
                 rate |-> grain.voice.rate]
  /\ UNCHANGED benchFrame

----------------------------------------------------------------------------
(* The envelope of a grain *)

\* Grain times, sizes (0.01 s, 0.1 s, 0.5 s) and volumes; the volume LFO
\* takes the volume below 0 and above 1.
EnvCalls ==
  {[fn |-> "envelope", time |-> t, grainSize |-> z, volume |-> v, lfoVal |-> l,
    mode |-> m, curveOk |-> c] :
     t \in {0, 250, 17500},
     z \in {Sec \div 100, Sec \div 10, Sec \div 2},
     v \in {0, 500, 1000},
     l \in {0 - 1000, 0, 500},
     m \in {"NONE", "STUTTER"},
     c \in BOOLEAN}

\* One call of scheduleGrain on a backend that accepts the curve or not.
CallEnveloping ==
  /\ arg.fn = "envelope"
  /\ ret = NoCall
  /\ LET orb == Orb("a", [ParamsMiddle EXCEPT !.grainSize = arg.grainSize,
                                              !.volume = arg.volume,
                                              !.lfoTarget = "volume"], 2 * Sec, 0)
         grain == ScheduleGrain(orb, arg.time, arg.lfoVal, GlitchIn(arg.mode), GpDefault,
                                500, 500, 500, 500)
     IN  ret' = [fn |-> "envelope", built |-> grain.built,
                 played |-> Enveloping(grain.voice, arg.curveOk)]
  /\ UNCHANGED benchFrame

----------------------------------------------------------------------------
(* The scan offset of a grain *)

\* Positions with a position LFO that takes them below 0 and above 1,
\* draws of the position jitter on both sides of 0.5, a burst with the
\* offset unset or frozen by an orb with a longer buffer, and buffers of
\* 1 s and of 2^19 units, where the numbers next to the duration are
\* further apart than the jitter is small.
OffsetCalls ==
  {[fn |-> "offset", position |-> x, lfoVal |-> l, buffer |-> b, rPos |-> r,
    mode |-> m, frozenOffset |-> f] :
     x \in {0, 500, 1000},
     l \in {0 - 1000, 0, 1000},
     b \in {Sec, 2^19},
     r \in {0, 498, 500, 750, 999},
     m \in {"NONE", "STUTTER"},
     f \in {Unset, 0, 15 * 1000}}

\* One call of scheduleGrain: the offset handed to source.start.
CallScanOffset ==
  /\ arg.fn = "offset"
  /\ ret = NoCall
  /\ LET orb == Orb("a", [ParamsMiddle EXCEPT !.position = arg.position,
                                              !.lfoTarget = "position"], arg.buffer, 0)
         g == [GlitchIn(arg.mode) EXCEPT !.frozenOffset = arg.frozenOffset]
         grain == ScheduleGrain(orb, 0, arg.lfoVal, g, GpDefault, 500, arg.rPos, 500, 500)
     IN  ret' = [fn |-> "offset", built |-> grain.built, offset |-> grain.voice.offset]
  /\ UNCHANGED benchFrame

----------------------------------------------------------------------------
(* The App's batch import *)

\* dragState is null: no drag.
NoDrag == [type |-> "NONE", id |-> ""]

\* The ids Math.random() gives to connections.
ConnIds == {"c1", "c2"}

\* The pointers that can be down on the canvas at a time (a mouse and a
\* touch or a pen, or two touches).
MaxPointers == 2

\* No import running.
NoUpload == [handler |-> "none", files |-> <<>>, pos |-> 0]

\* The files of one batch.
MaxFiles == 3

\* A File: audio is file.type.startsWith('audio/'), decodes is whether
\* decodeAudioData accepts its bytes; name is its place in the batch.
FileKinds == {[audio |-> a, decodes |-> d] : a \in BOOLEAN, d \in BOOLEAN}

Batches ==
  UNION {{[k \in 1..n |-> [name |-> k, audio |-> kinds[k].audio, decodes |-> kinds[k].decodes]] :
            kinds \in [1..n -> FileKinds]} : n \in 1..MaxFiles}

\* handleDrop decodes the files of an audio type only.
Accepts(handler, file) == handler = "handleFileUpload" \/ file.audio

\* A catch that gives the batch up.
CatchDecodeError_Abort(u) == [u EXCEPT !.pos = Len(u.files) + 1]

\* catch (err) { console.error(...) } inside the for loop: on to the next file.
CatchDecodeError(u) == [u EXCEPT !.pos = u.pos + 1]

----------------------------------------------------------------------------
(* Initial state: the engine after its constructor *)

EngineInit ==
  /\ ctxState \in {"suspended", "running"}
  /\ awaiting = 0
  /\ isPlaying = FALSE
  /\ schedulerInterval = 0
  /\ timers = {}
  /\ timerSeq = 0
  /\ orbs = <<>>
  /\ globalParams = GpDefault
  /\ glitchState = IdleGlitch
  /\ nextGrainTime = [id \in OrbIds |-> NoEntry]
  /\ now = 0
  /\ pc = "idle"
  /\ cur = 0
  /\ nextTime = 0
  /\ voice = NoVoice
  /\ lastStart = [id \in OrbIds |-> NoEntry]
  /\ fresh = {}
  /\ stutterFirst = NoFirst
  /\ orbsList = <<>>
  /\ resumed = 0
  /\ calls = 0
  /\ fx = NoFx
  /\ paramsArg = GpDefault
  /\ upload = NoUpload
  /\ appOrbs = <<>>
  /\ decodeLog = <<>>
  /\ canvas = [orbs |-> <<>>, connections |-> <<>>, dragState |-> NoDrag, pointers |-> 0]
  /\ ret = NoCall

Init == EngineInit /\ arg = NoCall

\* The engine with two densities at hand for the interval formula.
InitInterval == EngineInit /\ arg \in IntervalCalls

\* The engine with a call at hand for one part of the scheduler: the step
\* rule, the playback rate, the LFO frequency, the LFO target, the envelope.
InitBench ==
  EngineInit /\ arg \in (StepCalls \cup RateCalls \cup LfoCalls \cup TargetCalls \cup EnvCalls
                           \cup OffsetCalls)

\* The engine with a call of detectBPM at hand.
InitBpm == EngineInit /\ arg \in BpmCalls

----------------------------------------------------------------------------
(* Engine facade *)

schedulerVars == <<glitchState, nextGrainTime, now, pc, cur, nextTime, voice,
                   lastStart, stutterFirst>>
timerVars == <<ctxState, awaiting, isPlaying, schedulerInterval, timers, timerSeq, resumed>>
\* The App's import state and the calls of the pure functions.
appVars == <<upload, appOrbs, decodeLog, canvas, arg, ret>>

\* startScheduler: clear the interval in schedulerInterval, if any, and set a
\* new one.  The result is <<schedulerInterval, timers, timerSeq>>.
StartScheduler(interval, live, seq) ==
  <<seq + 1, (IF interval # 0 THEN live \ {interval} ELSE live) \cup {seq + 1}, seq + 1>>

\* The tail that starts the scheduler and leaves isPlaying as it was.
ResumeTail_NoFlag(playing, interval, live, seq) ==
  IF ~playing
    THEN <<playing>> \o StartScheduler(interval, live, seq)
    ELSE <<playing, interval, live, seq>>

\* The part of resume() after the await: <<isPlaying, schedulerInterval,
\* timers, timerSeq>>.
ResumeTail(playing, interval, live, seq) ==
  IF ~playing
    THEN <<TRUE>> \o StartScheduler(interval, live, seq)
    ELSE <<playing, interval, live, seq>>

FinishResume ==
  LET t == ResumeTail(isPlaying, schedulerInterval, timers, timerSeq)
  IN  /\ isPlaying' = t[1]
      /\ schedulerInterval' = t[2]
      /\ timers' = t[3]
      /\ timerSeq' = t[4]
      /\ resumed' = resumed + 1

\* resume() is called, at most limit times in a run.  On a suspended context
\* the call parks at the await; on a running one it runs to its end.
ResumeCall(limit) ==
  /\ pc = "idle"
  /\ awaiting + resumed < limit
  /\ IF ctxState = "suspended"
       THEN /\ awaiting' = awaiting + 1
            /\ UNCHANGED <<ctxState, isPlaying, schedulerInterval, timers, timerSeq, resumed>>
       ELSE /\ FinishResume
            /\ UNCHANGED <<ctxState, awaiting>>
  /\ UNCHANGED <<orbs, globalParams, fresh, orbsList, calls, fx, paramsArg>>
  /\ UNCHANGED schedulerVars
  /\ UNCHANGED appVars

\* The backend has started: a parked resume() call continues.
ResumeSettle ==
  /\ pc = "idle"
  /\ awaiting > 0
  /\ ctxState' = "running"
  /\ awaiting' = awaiting - 1
  /\ FinishResume
  /\ UNCHANGED <<orbs, globalParams, fresh, orbsList, calls, fx, paramsArg>>
  /\ UNCHANGED schedulerVars
  /\ UNCHANGED appVars

\* A store that copies the tempo fields only.
StoreParams_Partial(old, params) ==
  [old EXCEPT !.masterBpm = params.masterBpm, !.beatSync = params.beatSync]

\* this.globalParams = params: one assignment of the whole object.
StoreParams(old, params) == params

UpdateGlobalParams(presets) ==
  /\ pc = "idle"
  /\ calls < MaxCalls
  /\ calls' = calls + 1
  /\ \E params \in presets :
       /\ params # globalParams
       /\ globalParams' = StoreParams(globalParams, params)
       /\ paramsArg' = params
       /\ fx' = ProgramFx(fx, params)
  /\ UNCHANGED <<orbs, fresh, orbsList>>
  /\ UNCHANGED schedulerVars
  /\ UNCHANGED timerVars
  /\ UNCHANGED appVars

UpdateOrbs(lists) ==
  /\ pc = "idle"
  /\ calls < MaxCalls
  /\ calls' = calls + 1
  /\ \E list \in lists :
       /\ list # orbsList
       /\ orbs' = RegisterOrbs(orbs, list)
       /\ orbsList' = list
       /\ fresh' = (fresh \cap IdsOf(orbs')) \cup (IdsOf(orbs') \ IdsOf(orbs))
  /\ UNCHANGED <<globalParams, fx, paramsArg>>
  /\ UNCHANGED schedulerVars
  /\ UNCHANGED timerVars
  /\ UNCHANGED appVars

----------------------------------------------------------------------------
(* The App's import handlers: handleFileUpload and handleDrop *)

\* A handler is called with a batch of files and awaits engine.resume(); the
\* user's gesture lets the backend start.
ImportStart ==
  /\ pc = "idle"
  /\ upload = NoUpload
  /\ \E handler \in {"handleFileUpload", "handleDrop"}, files \in Batches :
       upload' = [handler |-> handler, files |-> files, pos |-> 1]
  /\ ctxState' = "running"
  /\ FinishResume
  /\ UNCHANGED <<awaiting, orbs, globalParams, fresh, orbsList, calls, fx, paramsArg,
                 appOrbs, decodeLog, canvas, arg, ret>>
  /\ UNCHANGED schedulerVars

\* One turn of the for loop: decodeAudio, detectBPM and setOrbs, inside the
\* try; a rejected decode goes to the catch.
ImportFile ==
  /\ upload.handler # "none"
  /\ upload.pos <= Len(upload.files)
  /\ LET file == upload.files[upload.pos]
     IN  IF ~Accepts(upload.handler, file)
           THEN /\ upload' = [upload EXCEPT !.pos = upload.pos + 1]
                /\ UNCHANGED <<appOrbs, decodeLog>>
           ELSE /\ decodeLog' = Append(decodeLog, file.name)
                /\ IF ~file.decodes
                     THEN /\ upload' = CatchDecodeError(upload)
                          /\ UNCHANGED appOrbs
                     ELSE \E fault \in {"none", "render"} :
                            LET bpm == DetectBPM(ClickTrack(120, 44100, MaxPeaks), fault)
                            IN  IF bpm.threw
                                  THEN /\ upload' = CatchDecodeError(upload)
                                       /\ UNCHANGED appOrbs
                                  ELSE /\ upload' = [upload EXCEPT !.pos = upload.pos + 1]
                                       /\ appOrbs' = Append(appOrbs,
                                            [name |-> file.name, detectedBpm |-> bpm.value])
  /\ UNCHANGED <<orbs, globalParams, fresh, orbsList, calls, fx, paramsArg, canvas, arg, ret>>
  /\ UNCHANGED schedulerVars
  /\ UNCHANGED timerVars

\* The canvas handlers leave the engine, the import and the calls alone.
canvasFrame ==
  <<ctxState, awaiting, isPlaying, schedulerInterval, timers, timerSeq,
    orbs, globalParams, glitchState, nextGrainTime, now, pc, cur,
    nextTime, voice, lastStart, fresh, stutterFirst, orbsList, resumed, calls,
    fx, paramsArg, upload, appOrbs, decodeLog, arg, ret>>

\* setOrbs(prev => [...prev, newOrb]) at the end of a decode: the id is a
\* string drawn by Math.random(), which nothing compares with the ids in use.
AddOrb ==
  /\ Len(canvas.orbs) < MaxOrbs
  /\ \E id \in OrbIds : canvas' = [canvas EXCEPT !.orbs = Append(@, id)]
  /\ UNCHANGED canvasFrame

\* handlePointerDown: hit is the index of the orb the loop finds under the
\* pointer (0: none), ctrl and shift the modifier keys.  Ctrl on an orb
\* deletes it and its connections and returns; otherwise a press on an orb
\* starts a drag; Ctrl+Shift off the orbs deletes the connection under the
\* pointer, which getConnectionAt finds among those with both ends in orbs.
PointerDown ==
  /\ canvas.pointers < MaxPointers
  /\ \E hit \in 0..Len(canvas.orbs), ctrl \in BOOLEAN, shift \in BOOLEAN :
       LET down == [canvas EXCEPT !.pointers = @ + 1]
           ids == {down.orbs[i] : i \in 1..Len(down.orbs)}
       IN  IF hit # 0
             THEN LET orb == down.orbs[hit]
                  IN  IF ctrl
                        THEN canvas' =
                               [down EXCEPT
                                  !.orbs = SelectSeq(@, LAMBDA o : o # orb),
                                  !.connections =
                                    SelectSeq(@, LAMBDA c : c.fromOrbId # orb /\ c.toOrbId # orb)]
                        ELSE canvas' =
                               [down EXCEPT
                                  !.dragState = [type |-> IF shift THEN "CONNECT" ELSE "ORB",
                                                 id |-> orb]]
           ELSE IF ctrl /\ shift
             THEN \E hitConn \in {0} \cup {i \in 1..Len(down.connections) :
                                              /\ down.connections[i].fromOrbId \in ids
                                              /\ down.connections[i].toOrbId \in ids} :
                    canvas' =
                      IF hitConn = 0 THEN down
                      ELSE [down EXCEPT
                              !.connections =
                                SelectSeq(@, LAMBDA c : c.id # down.connections[hitConn].id)]
           ELSE canvas' = down
  /\ UNCHANGED canvasFrame

\* handlePointerUp: a CONNECT drag dropped on another orb than its source
\* appends a connection unless the pair is connected already; the drag ends.
PointerUp ==
  /\ canvas.pointers > 0
  /\ \E hit \in 0..Len(canvas.orbs), id \in ConnIds :
       LET up == [canvas EXCEPT !.pointers = @ - 1, !.dragState = NoDrag]
           from == canvas.dragState.id
           to == canvas.orbs[hit]
           exists == \E i \in 1..Len(canvas.connections) :
                       LET c == canvas.connections[i]
                       IN  \/ (c.fromOrbId = from /\ c.toOrbId = to)
                           \/ (c.fromOrbId = to /\ c.toOrbId = from)
       IN  IF canvas.dragState.type = "CONNECT" /\ hit # 0 /\ to # from /\ ~exists
             THEN canvas' = [up EXCEPT !.connections =
                               Append(@, [id |-> id, fromOrbId |-> from, toOrbId |-> to])]
             ELSE canvas' = up /\ id = "c1"
  /\ UNCHANGED canvasFrame

----------------------------------------------------------------------------
(* The scheduler callback *)

\* forEach moves to the k-th entry of the Map, or the callback returns.
EnterOrb(k, t) ==
  IF k > Len(orbs)
    THEN pc' = "idle" /\ cur' = 0 /\ nextTime' = 0
    ELSE pc' = "loop" /\ cur' = k /\ nextTime' = StartCursor(nextGrainTime'[orbs[k].id], t)

\* A timer fires: the callback reads the clock, advances the glitch state
\* machine and starts on the first orb.
Tick ==
  /\ pc = "idle"
  /\ timers # {}
  /\ \E dt \in ClockSteps,
        rRoll \in Draws(ChaosGate(globalParams.chaos) /\ ~glitchState.active) :
     \E rDur \in Draws(rRoll * 1000 < globalParams.chaos * 50),
        rMode \in Draws(rRoll * 1000 < globalParams.chaos * 50) :
       /\ now + dt <= MaxTime * lookahead
       /\ now' = now + dt
       /\ glitchState' = ManageGlitch(glitchState, globalParams, now', rRoll, rDur, rMode)
  /\ stutterFirst' = IF Stuttering(glitchState) /\ Stuttering(glitchState')
                       THEN stutterFirst ELSE NoFirst
  /\ voice' = NoVoice
  /\ UNCHANGED <<nextGrainTime, lastStart>>
  /\ EnterOrb(1, now')
  /\ UNCHANGED <<orbs, globalParams, fresh, orbsList, calls, fx, paramsArg>>
  /\ UNCHANGED timerVars
  /\ UNCHANGED appVars

\* The loop test holds and the iteration computes the LFO and calls
\* scheduleGrain(orb, nextTime, lfoVal).
GrainStep ==
  /\ pc = "loop"
  /\ nextTime < now + scheduleAheadTime
  /\ LET orb == orbs[cur]
         lfoVal == LfoVal(orb, globalParams, nextTime)
         voiced == orb.buffer # 0
     IN  \E rJump \in Draws(voiced /\ glitchState.active /\ glitchState.mode = "PITCH_JUMP"),
            rPos \in Draws(voiced /\ ~Stuttering(glitchState)),
            rPan \in Draws(voiced /\ globalParams.space # 0),
            rCents \in Draws(voiced /\ orb.params.randomPitch # 0) :
           LET g == ScheduleGrain(orb, nextTime, lfoVal, glitchState, globalParams,
                                  rJump, rPos, rPan, rCents)
           IN  IF g.hung
                 THEN /\ pc' = "hung"
                      /\ UNCHANGED <<glitchState, voice, lastStart, fresh, stutterFirst>>
                 ELSE /\ pc' = "advance"
                      /\ glitchState' = g.glitch
                      /\ voice' = g.voice
                      /\ lastStart' = [lastStart EXCEPT ![orb.id] = nextTime]
                      /\ fresh' = fresh \ {orb.id}
                      /\ stutterFirst' =
                           IF g.built /\ Stuttering(glitchState) /\ stutterFirst = NoFirst
                             THEN [id |-> g.voice.id, offset |-> g.voice.offset,
                                   raw |-> g.glitch.frozenOffset]
                             ELSE stutterFirst
  /\ UNCHANGED <<nextGrainTime, now, cur, nextTime>>
  /\ UNCHANGED <<orbs, globalParams, orbsList, calls, fx, paramsArg>>
  /\ UNCHANGED timerVars
  /\ UNCHANGED appVars

\* scheduleGrain has returned: the next time calculation.  A step that is not
\* positive leaves the loop test true for ever.
AdvanceCursor ==
  /\ pc = "advance"
  /\ LET orb == orbs[cur]
         lfoVal == LfoVal(orb, globalParams, nextTime)
         density == EffectiveDensity(orb, glitchState, lfoVal)
     IN  \E rStep \in Draws(~Stuttering(glitchState)) :
           LET step == CursorStep(glitchState, globalParams, density, rStep)
           IN  IF step <= 0
                 THEN pc' = "hung" /\ UNCHANGED <<nextTime, voice>>
                 ELSE pc' = "loop" /\ nextTime' = nextTime + step /\ voice' = NoVoice
  /\ UNCHANGED <<glitchState, nextGrainTime, now, cur, lastStart, fresh, stutterFirst>>
  /\ UNCHANGED <<orbs, globalParams, orbsList, calls, fx, paramsArg>>
  /\ UNCHANGED timerVars
  /\ UNCHANGED appVars

\* The loop has filled the horizon: this.nextGrainTime.set(id, nextTime), and
\* forEach moves on.
PersistCursor ==
  /\ pc = "loop"
  /\ ~(nextTime < now + scheduleAheadTime)
  /\ nextGrainTime' = [nextGrainTime EXCEPT ![orbs[cur].id] = nextTime]
  /\ fresh' = fresh \ {orbs[cur].id}
  /\ voice' = NoVoice
  /\ EnterOrb(cur + 1, now)
  /\ UNCHANGED <<glitchState, now, lastStart, stutterFirst>>
  /\ UNCHANGED <<orbs, globalParams, orbsList, calls, fx, paramsArg>>
  /\ UNCHANGED timerVars
  /\ UNCHANGED appVars

\* The engine driven with at most resumes calls of resume(), the snapshots of
\* presets and the orb lists of lists.
Engine(resumes, presets, lists) ==
  \/ ResumeCall(resumes)
  \/ ResumeSettle
  \/ UpdateGlobalParams(presets)
  \/ UpdateOrbs(lists)
  \/ Tick
  \/ GrainStep
  \/ AdvanceCursor
  \/ PersistCursor

\* The whole engine: chaos in free-run and under beat-sync, one orb that is
\* registered, removed and registered again.
Next == Engine(1, {GpChaos, GpSync}, {<<>>, <<OrbA>>})

Spec == Init /\ [][Next]_vars

\* Overlapping resume() calls while the scheduler runs one orb.
NextResume == Engine(MaxResume, {GpChaos}, {<<OrbA>>})

SpecResume == Init /\ [][NextResume]_vars

\* Orb registration: every list over two ids under the default parameters.
NextOrbs ==
  \/ ResumeCall(1)
  \/ ResumeSettle
  \/ UpdateOrbs(ListsOf({OrbA, OrbB}))
  \/ Tick
  \/ GrainStep
  \/ AdvanceCursor
  \/ PersistCursor

SpecOrbs == Init /\ [][NextOrbs]_vars

\* Continuous playback: one orb that stays registered while a second one
\* comes and goes, in free-run and under beat-sync.
NextGapless == Engine(1, {GpBeat120}, {<<OrbA>>, <<OrbA, OrbB>>})

SpecGapless == Init /\ [][NextGapless]_vars

\* An orb without a buffer next to one with a buffer, in free-run with
\* bursts and under beat-sync with a tempo of 0.
NextNoBuffer == Engine(1, {GpBpm0, GpChaos}, {<<OrbEmpty, OrbB>>})

SpecNoBuffer == Init /\ [][NextNoBuffer]_vars

\* Bursts in free-run and under beat-sync, on an orb with a grain size LFO.
NextStutter == Engine(1, {GpChaos, GpSync}, {<<OrbSize>>})

SpecStutter == Init /\ [][NextStutter]_vars

\* Two orbs with buffers of 2 s and 1 s under bursts, in either order.
NextShared == Engine(1, {GpChaos}, {<<OrbMiddle, OrbB>>, <<OrbB, OrbMiddle>>})

SpecShared == Init /\ [][NextShared]_vars

\* The glitch state machine: chaos at 0, on the gate's boundary and at 1, with
\* one orb whose position the LFO modulates.
NextGlitch == Engine(1, {GpDefault, GpEdge, GpChaos}, {<<OrbB>>})

SpecGlitch == Init /\ [][NextGlitch]_vars

\* Grain synthesis: one orb with a pitch LFO, the full detune and a detected
\* tempo, in free-run and under beat-sync.
NextGrain == Engine(1, {GpBpm0, GpChaos, GpSync}, {<<OrbAPitch>>})

SpecGrain == Init /\ [][NextGrain]_vars

\* The delay network and the panner: a slow beat-synced tempo, a space of 1
\* and a space above 1.
NextFx == Engine(1, {GpSlow, GpWide, GpSync}, {<<OrbA>>})

SpecFx == Init /\ [][NextFx]_vars

\* Grain size: one orb whose size LFO swings the size below zero, with glitch
\* bursts.
NextSize == Engine(1, {GpChaos}, {<<OrbSize>>})

SpecSize == Init /\ [][NextSize]_vars

\* Beat-sync at 120 BPM over orbs of every density.
NextBeat ==
  Engine(1, {GpBeat120}, {<<OrbDensity(d)>> : d \in BeatDensities} \cup {<<OrbDensityLfo>>})

SpecBeat == Init /\ [][NextBeat]_vars

\* The free-run interval of pairs of densities.
NextInterval == CallFreeInterval

SpecInterval == InitInterval /\ [][NextInterval]_vars

\* The parts of the scheduler, each called once on the inputs at hand.
NextBench ==
  \/ CallCursorStep
  \/ CallScheduleGrain
  \/ CallLfoFreq
  \/ CallLfoTarget
  \/ CallEnveloping
  \/ CallScanOffset

SpecBench == InitBench /\ [][NextBench]_vars

\* A batch import through either handler.
NextImport == ImportStart \/ ImportFile

SpecImport == Init /\ [][NextImport]_vars

\* The canvas: orbs arrive, pointers go down and up.
NextCanvas == AddOrb \/ PointerDown \/ PointerUp

SpecCanvas == Init /\ [][NextCanvas]_vars

\* Tempo detection on click tracks, with and without a failing step.
NextBpm == CallDetectBPM

SpecBpm == InitBpm /\ [][NextBpm]_vars

----------------------------------------------------------------------------
(* Properties *)

InTick == pc \in {"loop", "advance"}
Horizon == now + scheduleAheadTime

\* C1: between callbacks the cursor table holds no entry for an orb id that
\* is not in the current orb set.
C1_NoStaleCursor ==
  pc = "idle" => \A id \in OrbIds : nextGrainTime[id] # NoEntry => id \in IdsOf(orbs)

\* C2: the playback rate of every voice has a magnitude in [0.05, 4.0].
C2_RateInRange ==
  voice # NoVoice => (50 <= Abs(voice.rate) /\ Abs(voice.rate) <= 4000)

\* C3: in a STUTTER burst every voice after the burst's first starts at the
\* scan offset of that first voice.
C3_StutterOffsetFrozen ==
  (voice # NoVoice /\ voice.mode = "STUTTER" /\ stutterFirst # NoFirst)
    => voice.offset = stutterFirst.offset

\* C4: the start time about to be handed to scheduleGrain for an orb is
\* strictly after the start time last handed to it for that orb.
C4_GrainsInOrder ==
  (pc = "loop" /\ nextTime < Horizon) => nextTime > lastStart[orbs[cur].id]

\* A second grain of an orb, in a later tick than its first, during a burst
\* and after a parameter update.
C4_Witness ==
  /\ pc = "loop" /\ nextTime < Horizon
  /\ lastStart[orbs[cur].id] # NoEntry
  /\ lastStart[orbs[cur].id] < now
  /\ glitchState.active
  /\ calls >= 2

\* C5: a burst is entered with endTime - now in [0.1, 0.3] s; once a tick has
\* read the clock, a burst is active only if the reading is not beyond its
\* endTime, and an inactive glitch state is NONE with frozenOffset unset,
\* whatever chaos is.
C5_BurstSelfTerminates ==
  [][ /\ (~glitchState.active /\ glitchState'.active)
         => /\ glitchState'.endTime - now' >= Sec \div 10
            /\ glitchState'.endTime - now' <= (3 * Sec) \div 10
      /\ glitchState'.active => now' <= glitchState'.endTime
      /\ ~glitchState'.active
         => glitchState'.mode = "NONE" /\ glitchState'.frozenOffset = Unset ]_vars

\* A burst that was entered has ended by a tick that ran with chaos at 0.
C5_Witness ==
  /\ InTick
  /\ globalParams.chaos = 0
  /\ glitchState.endTime > 0
  /\ now > glitchState.endTime
  /\ ~glitchState.active

C7_TickCompletes == pc # "hung"

\* C8: at most one scheduler timer runs, isPlaying is true exactly when one
\* does, and once a resume() call has returned one does and it is the one
\* schedulerInterval names.
C8_ResumeIdempotent ==
  /\ Cardinality(timers) <= 1
  /\ isPlaying <=> timers # {}
  /\ resumed >= 1 => (isPlaying /\ timers = {schedulerInterval})

\* A resume() call has returned while an overlapping one is still parked.
C8_Witness == resumed >= 1 /\ awaiting >= 1

\* C9: the registered orbs are those of the last list given to updateOrbs,
\* each id with the last orb the list has for it, and a tick visits and
\* voices registered orbs only.
C9_ReplaceAll ==
  /\ IdsOf(orbs) = IdsOf(orbsList)
  /\ \A i \in 1..Len(orbs) :
       \E j \in 1..Len(orbsList) :
         /\ orbs[i] = orbsList[j]
         /\ \A k \in (j + 1)..Len(orbsList) : orbsList[k].id # orbs[i].id
  /\ InTick => cur \in 1..Len(orbs)
  /\ voice # NoVoice => voice.id \in IdsOf(orbsList)

\* A voice of orb b in a tick after updateOrbs replaced a set holding a,
\* which had been visited, by one holding only b.
C9_Witness ==
  /\ IdsOf(orbs) = {"b"}
  /\ nextGrainTime["a"] # NoEntry
  /\ voice.id = "b"

\* C10: the first visit of a newly registered orb starts at the tick's clock
\* reading.
C10_FreshCursor ==
  (pc = "loop" /\ orbs[cur].id \in fresh) => nextTime = now

\* C11: for every GlobalParams with positive masterBpm the delay time that
\* updateGlobalParams programs is 0.5 s without beat-sync and
\* (60 / masterBpm) * 0.75 with it, and is at most the 5.0 s of the delay line.
C11_DelayWithinLine ==
  (fx # NoFx /\ globalParams.masterBpm > 0) =>
    /\ fx.delayTime = IF globalParams.beatSync
                        THEN (45 * Sec) \div globalParams.masterBpm
                        ELSE Sec \div 2
    /\ fx.delayTime <= 5 * Sec

\* C12: the pan of every grain built lies in [-1, 1], whatever the space is.
C12_PanInRange ==
  voice # NoVoice => (0 - 1000 <= voice.pan /\ voice.pan <= 1000)

\* C13: the feedback gain that updateGlobalParams programs is
\* min(0.7, space * 0.8), so never above 0.7.
C13_FeedbackCapped ==
  (fx # NoFx /\ ~(globalParams.beatSync /\ globalParams.masterBpm = 0)) =>
    /\ fx.feedback = IF globalParams.space * 800 > 700 * 1000
                       THEN 700
                       ELSE (globalParams.space * 800) \div 1000
    /\ fx.feedback <= 700

\* A space of 2 has been programmed: the cap is what keeps the gain at 0.7.
C13_Witness ==
  /\ fx # NoFx
  /\ globalParams.space = 2000
  /\ fx.send = 2000
  /\ fx.feedback = 700

\* C14: the grain size of every voice (its envelope duration, and its stop time
\* less 0.05 s) is at least 0.01 s, for every orb grain size, LFO sample and
\* glitch mode.
C14_GrainSizeFloor ==
  voice # NoVoice => voice.size >= Sec \div 100

\* A voice outside a STUTTER burst whose size LFO drove the size to zero or
\* below: it plays at the floor.
C14_Witness ==
  /\ pc = "advance"
  /\ voice # NoVoice
  /\ voice.mode # "STUTTER"
  /\ orbs[cur].params.lfoTarget = "grainSize"
  /\ orbs[cur].params.grainSize
       + (LfoVal(orbs[cur], globalParams, voice.time) * Sec) \div 5000 <= 0
  /\ voice.size = Sec \div 100

\* C16: when a step of the analysis raises an error, detectBPM still returns
\* normally, and returns exactly 120.
C16_DegradesTo120 ==
  (ret # NoCall /\ ret.fn = "detectBPM" /\ arg.fault # "none") =>
    (~ret.threw /\ ret.value = 120)

\* The render of a three-click track failed and the call has returned.
C16_Witness ==
  /\ ret # NoCall
  /\ arg.fn = "detectBPM"
  /\ arg.fault = "render"
  /\ arg.clicks = 3
  /\ ret.value = 120

\* C17: on a buffer with fewer than two accepted peaks (silence: no sample
\* above the threshold; one click, however many samples of it are loud)
\* detectBPM returns exactly 120.
C17_FewPeaksGive120 ==
  (ret # NoCall /\ ret.fn = "detectBPM" /\ arg.fault = "none" /\ arg.clicks < 2) =>
    (~ret.threw /\ ret.value = 120)

\* Silence and a single click loud over three samples have both been analysed.
C17_Witness ==
  /\ ret # NoCall
  /\ arg.fn = "detectBPM"
  /\ arg.fault = "none"
  /\ Len(arg.buffer.loud) = 3
  /\ arg.clicks = 1
  /\ ret.value = 120

C15_BatchSurvivesFailure ==
  upload.handler # "none" =>
    LET passed == SubSeq(upload.files, 1, upload.pos - 1)
        Taken(f) == Accepts(upload.handler, f)
        Decoded(f) == Accepts(upload.handler, f) /\ f.decodes
        taken == SelectSeq(passed, Taken)
        decoded == SelectSeq(passed, Decoded)
    IN  /\ upload.pos <= Len(upload.files) + 1
        /\ decodeLog = [i \in 1..Len(taken) |-> taken[i].name]
        /\ [i \in 1..Len(appOrbs) |-> appOrbs[i].name]
             = [i \in 1..Len(decoded) |-> decoded[i].name]

\* A batch of three is through: the first file failed to decode, the two after
\* it were decoded and appended.
C15_Witness ==
  /\ upload.handler # "none"
  /\ Len(upload.files) = 3
  /\ upload.pos = 4
  /\ upload.files[1].audio /\ ~upload.files[1].decodes
  /\ decodeLog = <<1, 2, 3>>
  /\ Len(appOrbs) = 2
  /\ appOrbs[1].name = 2
  /\ appOrbs[2].name = 3

\* C19: under beat-sync with no STUTTER burst the cursor step is within 5% of
\* beatDuration * subdivision, the subdivision being 1.0 for an effective
\* density d < 0.25, 0.5 for 0.25 <= d < 0.5, 0.25 for 0.5 <= d < 0.75 and
\* 0.125 for d >= 0.75; a density of 0.6 at 120 BPM has a base of 0.125 s.
C19_BeatSubdivision ==
  [][ (pc = "advance" /\ pc' = "loop" /\ globalParams.beatSync
         /\ globalParams.masterBpm > 0 /\ ~Stuttering(glitchState)) =>
        LET orb == orbs[cur]
            e == EffectiveDensity(orb, glitchState, LfoVal(orb, globalParams, nextTime))
            d == IF e < 0 THEN 0 ELSE IF e > 1000 THEN 1000 ELSE e
            subdivision == IF d < 250 THEN 1000
                           ELSE IF d < 500 THEN 500
                           ELSE IF d < 750 THEN 250
                           ELSE 125
            base == (((60 * Sec) \div globalParams.masterBpm) * subdivision) \div 1000
            step == nextTime' - nextTime
        IN  /\ 20 * Abs(step - base) <= base
            /\ (orb.params.lfoTarget = "none" /\ orb.params.grainDensity = 600
                  /\ globalParams.masterBpm = 120) => base = Sec \div 8
    ]_vars

\* The cursor of an orb of density exactly 0.25 has advanced by half a beat
\* of 120 BPM (a quarter of a second, within 5%), with no burst running.
C19_Witness ==
  /\ pc = "loop"
  /\ globalParams = GpBeat120
  /\ orbs[cur].params.grainDensity = 250
  /\ orbs[cur].params.lfoTarget = "none"
  /\ lastStart[orbs[cur].id] # NoEntry
  /\ 20 * Abs((nextTime - lastStart[orbs[cur].id]) - Sec \div 4) <= Sec \div 4

\* C20: the free-run interval before jitter, 0.5 - sqrt(d) * 0.49 on the
\* density clamped to [0.01, 1], lies in [0.01, 0.5] and decreases as the
\* density grows; a density outside [0.01, 1] has the interval of the nearest
\* bound (0.451 s below 0.01, 0.01 s above 1).
C20_FreeIntervalMonotone ==
  (ret # NoCall /\ ret.fn = "interval") =>
    /\ Sec \div 100 <= ret.i1 /\ ret.i1 <= Sec \div 2
    /\ Sec \div 100 <= ret.i2 /\ ret.i2 <= Sec \div 2
    /\ arg.d1 <= arg.d2 => ret.i1 >= ret.i2
    /\ (10 <= arg.d1 /\ arg.d1 < arg.d2 /\ arg.d2 <= 1000) => ret.i1 > ret.i2
    /\ arg.d1 <= 10 => ret.i1 = Sec \div 2 - (49 * Sec) \div 1000
    /\ arg.d1 >= 1000 => ret.i1 = Sec \div 100

\* The formula has been applied to a density of -0.5 and to one of 2.
C20_Witness ==
  /\ ret # NoCall
  /\ arg.fn = "interval"
  /\ arg.d1 = 0 - 500
  /\ arg.d2 = 2000
  /\ ret.i1 = Sec \div 2 - (49 * Sec) \div 1000
  /\ ret.i2 = Sec \div 100

\* C21: updateGlobalParams(p) replaces the whole snapshot at once: between
\* callbacks the snapshot is the argument of the last call, and it does not
\* change while a tick runs, so a tick takes all its decisions from one
\* snapshot, the last one passed before it started.
C21_SnapshotAtomic ==
  /\ [](globalParams = paramsArg)
  /\ [][pc # "idle" => globalParams' = globalParams]_vars
  /\ [][(pc = "idle" /\ pc' # "idle") => globalParams' = paramsArg]_vars

\* A tick is running on the second snapshot passed to the engine.
C21_Witness ==
  /\ InTick
  /\ calls >= 3
  /\ globalParams = GpSync
  /\ voice # NoVoice
  /\ voice.pan # 0

\* C22: no mid-burst mode switching: across any step that leaves a burst
\* running, mode and endTime keep the values chosen on entry, whatever chaos
\* and the random draws of that tick are; a running burst has one of the
\* three modes and an inactive one has mode NONE.
C22_NoMidBurstSwitch ==
  /\ [][(glitchState.active /\ glitchState'.active)
          => /\ glitchState'.mode = glitchState.mode
             /\ glitchState'.endTime = glitchState.endTime]_vars
  /\ [](glitchState.active <=> glitchState.mode # "NONE")

\* A tick later than the entry tick has run inside the burst with the
\* chaos gate open at full chaos.
C22_Witness ==
  /\ InTick
  /\ glitchState.active
  /\ glitchState.mode = "REVERSE"
  /\ now <= glitchState.endTime
  /\ glitchState.endTime - now < Sec \div 10
  /\ globalParams.chaos = 1000

\* C23: every grain a tick schedules starts at a time t with
\* now <= t < now + 0.1 s, now being the clock reading of that tick: a cursor
\* behind the clock is snapped to it first, so no grain starts in the past.
C23_GrainInWindow ==
  voice # NoVoice => (now <= voice.time /\ voice.time < now + Sec \div 10)

\* A grain emitted at the clock reading by a tick that found the stored
\* cursor of its orb behind the clock.
C23_Witness ==
  /\ pc = "advance"
  /\ voice # NoVoice
  /\ voice.time = now
  /\ nextGrainTime[voice.id] # NoEntry
  /\ nextGrainTime[voice.id] > 0
  /\ nextGrainTime[voice.id] < now

\* The orbs a completed visit of the scheduler has left a cursor for: the
\* registered ones that were not registered anew since.
Visited == {id \in IdsOf(orbs) : id \notin fresh}

\* C24: after every tick the persisted cursor of each registered orb is at
\* or beyond now + 0.1 s (inside a tick, that of each orb already passed); so
\* a tick that comes at most 100 ms after the previous one finds no cursor
\* behind its clock and starts each orb at the stored cursor, without a snap.
C24_Gapless ==
  /\ [](pc = "idle" => \A id \in Visited : nextGrainTime[id] >= now + Sec \div 10)
  /\ [](InTick => \A k \in 1..(cur - 1) :
                    nextGrainTime[orbs[k].id] >= now + Sec \div 10)
  /\ [][(pc = "idle" /\ now' # now /\ now' - now <= Sec \div 10)
          => /\ \A id \in Visited : nextGrainTime[id] >= now'
             /\ (orbs # <<>> /\ orbs[1].id \in Visited)
                  => nextTime' = nextGrainTime[orbs[1].id]]_vars
  /\ [][(pc = "loop" /\ pc' = "loop" /\ cur' = cur + 1 /\ orbs[cur'].id \in Visited
          /\ nextGrainTime[orbs[cur'].id] >= now)
          => nextTime' = nextGrainTime[orbs[cur'].id]]_vars

\* The second of two registered orbs is about to get a grain at its stored
\* cursor, ahead of the clock, in a tick that came 25 ms after the last one.
C24_Witness ==
  /\ pc = "loop"
  /\ cur = 2
  /\ orbs[cur].id \in Visited
  /\ nextTime = nextGrainTime[orbs[cur].id]
  /\ nextTime > now
  /\ nextTime < now + Sec \div 10
  /\ nextGrainTime[orbs[1].id] >= now + Sec \div 10
  /\ globalParams.beatSync

\* C25: with masterBpm > 0 and density and LFO depth in [0,1], every cursor
\* advance is positive: 0.05 s under STUTTER, at least 0.005 s in free-run,
\* at least 0.95 * beatDuration * 0.125 under beat-sync. No advance is below
\* 5 ms, so at most 20 of them fit into the 100 ms window of one tick.
C25_PositiveStep ==
  ret.fn = "step" =>
    /\ ret.step > 0
    /\ ret.step >= Sec \div 200
    /\ arg.mode = "STUTTER" => ret.step = Sec \div 20
    /\ (arg.mode # "STUTTER" /\ ~arg.beatSync) => ret.step <= Sec \div 2 + Sec \div 200
    /\ (arg.mode # "STUTTER" /\ arg.beatSync)
         => ret.step * 8 * 100 >= 95 * ((60 * Sec) \div arg.masterBpm)

\* The stutter step taken at 999 BPM under beat-sync.
C25_Witness ==
  /\ ret.fn = "step"
  /\ arg.mode = "STUTTER"
  /\ arg.beatSync
  /\ arg.masterBpm = 999
  /\ ret.step = Sec \div 20

\* x and y differ by a power of two (x, y > 0).
RECURSIVE PowerOfTwoApart(_, _)
PowerOfTwoApart(x, y) ==
  IF x = y THEN TRUE
  ELSE IF x < y THEN PowerOfTwoApart(2 * x, y)
  ELSE PowerOfTwoApart(x, 2 * y)

\* C26: with beat-sync on and a detected tempo, masterBpm / detectedBpm is
\* halved or doubled into [0.75, 1.5] for every pair of positive tempos: the
\* loops end, the result is the raw ratio times a power of two, and the
\* playback rate is the base rate times that result; with beat-sync off or no
\* detected tempo the rate is the base rate.
C26_BeatRatioFolded ==
  ret.fn = "rate" =>
    LET base == 1000 + arg.lfoVal
    IN  /\ ret.built /\ ~ret.hung
        /\ ret.synced <=> (arg.beatSync /\ arg.detectedBpm > 0)
        /\ ret.synced =>
             /\ ret.ratio.ok
             /\ 3 * ret.ratio.den <= 4 * ret.ratio.num
             /\ 2 * ret.ratio.num <= 3 * ret.ratio.den
             /\ PowerOfTwoApart(ret.ratio.num * arg.detectedBpm,
                                ret.ratio.den * arg.masterBpm)
             /\ ret.rate = (base * ret.ratio.num) \div ret.ratio.den
        /\ ~ret.synced => ret.rate = base

\* A tempo pair far apart: 999 against 60 BPM, folded by four halvings, on
\* a base rate of 1.5.
C26_Witness ==
  /\ ret.fn = "rate"
  /\ ret.synced
  /\ arg.masterBpm = 999
  /\ arg.detectedBpm = 60
  /\ arg.lfoVal = 500
  /\ ret.ratio.den = 16 * 60
  /\ ret.rate = (1500 * 999) \div 960

\* quarterNoteHz * r for r in 0.125, 0.25, 0.5, 1, 1.5, 2, 3, 4, in millihertz.
BeatFreqs(masterBpm) ==
  {(masterBpm * 1000 * r8) \div (60 * 8) : r8 \in {1, 2, 4, 8, 12, 16, 24, 32}}

\* C27: with beat-sync on, the LFO frequency of a grain is the beat
\* frequency nearest to the orb's lfoRate by absolute distance, the lower
\* one of two as near; with beat-sync off it is lfoRate itself.
C27_LfoSnapsToNearest ==
  ret.fn = "lfo" =>
    IF arg.beatSync
      THEN /\ ret.lfoFreq \in BeatFreqs(arg.masterBpm)
           /\ \A c \in BeatFreqs(arg.masterBpm) :
                /\ Abs(ret.lfoFreq - arg.lfoRate) <= Abs(c - arg.lfoRate)
                /\ Abs(ret.lfoFreq - arg.lfoRate) = Abs(c - arg.lfoRate)
                     => ret.lfoFreq <= c
      ELSE ret.lfoFreq = arg.lfoRate

\* A tie: at 120 BPM a rate of 0.75 Hz is as far from 0.5 Hz as from 1 Hz,
\* and the LFO runs at 0.5 Hz.
C27_Witness ==
  /\ ret.fn = "lfo"
  /\ arg.beatSync
  /\ arg.masterBpm = 120
  /\ arg.lfoRate = 750
  /\ ret.lfoFreq = 500

\* C28: the LFO sample modifies at most one quantity of a grain, the one
\* lfoTarget names: position (seen in the offset, 1 s into a 2 s buffer when
\* unmodulated), grain size (0.1 s), volume (0.5), playback rate (1) or
\* density (0.5); every other one has its unmodulated value, and with
\* lfoTarget none all five have.
C28_LfoOneTarget ==
  ret.fn = "target" =>
    /\ ret.built
    /\ arg.lfoTarget # "position" => ret.offset = Sec
    /\ arg.lfoTarget # "grainSize" => ret.size = Sec \div 10
    /\ arg.lfoTarget # "volume" => ret.peak = 500
    /\ arg.lfoTarget # "pitch" => ret.rate = 1000
    /\ arg.lfoTarget # "density" => ret.density = 500
    /\ arg.lfoTarget = "position" => ret.offset = WrapOffset(Sec + 10 * arg.lfoVal, 2 * Sec)
    /\ arg.lfoTarget = "grainSize" => ret.size = Max(Sec \div 100, Sec \div 10 + 2 * arg.lfoVal)
    /\ arg.lfoTarget = "volume" => ret.peak = Max(0, 500 + arg.lfoVal)
    /\ arg.lfoTarget = "pitch" => ret.rate = ClampRate(1000 + arg.lfoVal)
    /\ arg.lfoTarget = "density" => ret.density = 500 + arg.lfoVal

\* A sample of 0.3 on the position target: the offset moves by
\* 0.3 * 0.5 * 2 s and nothing else moves.
C28_Witness ==
  /\ ret.fn = "target"
  /\ arg.lfoTarget = "position"
  /\ arg.lfoVal = 300
  /\ ret.offset = Sec + 300 * 10
  /\ ret.size = Sec \div 10
  /\ ret.peak = 500
  /\ ret.rate = 1000
  /\ ret.density = 500

\* C29: a grain requested for an orb without a decoded buffer is skipped
\* silently: the call returns (no error, no hang), no voice is created, the
\* glitch state with its frozenOffset is as before, and the cursor of the orb
\* then advances by the step rule.
C29_NoBufferSkipped ==
  /\ [][(pc = "loop" /\ pc' # "loop" /\ orbs[cur].buffer = 0)
          => /\ pc' = "advance"
             /\ voice' = NoVoice
             /\ glitchState' = glitchState
             /\ nextTime' = nextTime]_vars
  /\ [][(pc = "advance" /\ orbs[cur].buffer = 0)
          => /\ pc' = "loop"
             /\ \E r \in Rnd :
                  nextTime' = nextTime
                    + CursorStep(glitchState, globalParams,
                                 EffectiveDensity(orbs[cur], glitchState,
                                                  LfoVal(orbs[cur], globalParams, nextTime)),
                                 r)
             /\ nextTime' > nextTime]_vars
  /\ [](voice # NoVoice => (InTick /\ voice.id = orbs[cur].id /\ orbs[cur].buffer # 0))

\* In a STUTTER burst the cursor of the orb without a buffer has advanced
\* by 50 ms past a skipped grain, and no offset was frozen.
C29_Witness ==
  /\ pc = "loop"
  /\ orbs[cur].buffer = 0
  /\ Stuttering(glitchState)
  /\ glitchState.frozenOffset = Unset
  /\ voice = NoVoice
  /\ lastStart[orbs[cur].id] >= now
  /\ nextTime = lastStart[orbs[cur].id] + Sec \div 20

\* C30: when the backend rejects the curve, the grain is not lost: the
\* envelope is a linear rise to max(0, volume) at start + grainSize / 2 and a
\* linear fall to 0 at start + grainSize, and the voice is started at the
\* grain time and stopped at start + grainSize + 0.05 s, as it is when the
\* curve is accepted.
C30_EnvelopeFallback ==
  ret.fn = "envelope" =>
    LET grainSize == IF arg.mode = "STUTTER" THEN Sec \div 20 ELSE arg.grainSize
        peakGain == IF arg.volume + arg.lfoVal > 0 THEN arg.volume + arg.lfoVal ELSE 0
        p == ret.played
    IN  /\ ret.built
        /\ p.started
        /\ p.start = arg.time
        /\ p.stop = arg.time + grainSize + Sec \div 20
        /\ p.events[1] = [op |-> "setValue", value |-> 0, at |-> arg.time]
        /\ ~arg.curveOk =>
             /\ Len(p.events) = 3
             /\ p.events[2] = [op |-> "linearRamp", value |-> peakGain,
                               at |-> arg.time + grainSize \div 2]
             /\ p.events[3] = [op |-> "linearRamp", value |-> 0, at |-> arg.time + grainSize]
        /\ arg.curveOk =>
             /\ Len(p.events) = 2
             /\ p.events[2] = [op |-> "curve", value |-> peakGain, at |-> arg.time,
                               duration |-> grainSize]

\* A grain of 0.1 s at half volume on a backend that rejects the curve:
\* the two ramps, 50 ms and 100 ms after the start.
C30_Witness ==
  /\ ret.fn = "envelope"
  /\ ~arg.curveOk
  /\ arg.mode = "NONE"
  /\ arg.time = 250
  /\ arg.grainSize = Sec \div 10
  /\ ret.played.started
  /\ ret.played.events[2] = [op |-> "linearRamp", value |-> 500, at |-> 250 + Sec \div 20]
  /\ ret.played.events[3] = [op |-> "linearRamp", value |-> 0, at |-> 250 + Sec \div 10]
  /\ ret.played.stop = 250 + Sec \div 10 + Sec \div 20

\* C31: the scan offset passed to the voice lies in [0, bufferDuration) for
\* every position, every position jitter and every frozen offset.
C31_OffsetInBuffer ==
  ret.fn = "offset" => (ret.built /\ 0 <= ret.offset /\ ret.offset < arg.buffer)

\* C32: while a STUTTER burst is active every grain has a size of exactly
\* 0.05 s and every cursor advance is exactly 0.05 s, whatever the orb's
\* grainSize, density and LFO target and whether beatSync is on.
C32_StutterFixed ==
  /\ []((voice # NoVoice /\ Stuttering(glitchState)) => voice.size = Sec \div 20)
  /\ [][(pc = "advance" /\ Stuttering(glitchState))
          => (pc' = "loop" /\ nextTime' = nextTime + Sec \div 20)]_vars

\* Under beat-sync, in a STUTTER burst, the cursor of the orb with the
\* grain size LFO has advanced by 50 ms past a grain of this tick.
C32_Witness ==
  /\ pc = "loop"
  /\ Stuttering(glitchState)
  /\ globalParams.beatSync
  /\ orbs[cur].params.lfoTarget = "grainSize"
  /\ lastStart[orbs[cur].id] >= now
  /\ nextTime = lastStart[orbs[cur].id] + Sec \div 20

\* C33: every value detectBPM returns lies in [70, 180]: an estimate below
\* 70 is doubled until it is at least 70, one above 180 is halved until it
\* is at most 180 (the value is the estimate times a power of two, rounded),
\* and without a beat interval the value is 120.
C33_BpmInRange ==
  ret.fn = "detectBPM" =>
    /\ ~ret.threw
    /\ 70 <= ret.value /\ ret.value <= 180
    /\ LET peaks == PeakScan(arg.buffer.loud, arg.buffer.sampleRate, 1, <<>>)
           bestInterval == BestInterval(Intervals(peaks))
           num == 60 * arg.buffer.sampleRate
       IN  IF arg.fault # "none" \/ Len(peaks) < 2 \/ bestInterval = 0
             THEN ret.value = 120
             ELSE \E k \in 0..3 :
                    \/ /\ num * 2^k >= 70 * bestInterval
                       /\ k > 0 => num * 2^(k - 1) < 70 * bestInterval
                       /\ num * 2^k <= 180 * bestInterval
                       /\ ret.value = RoundBpm(num * 2^k, bestInterval)
                    \/ /\ k > 0
                       /\ num <= 180 * bestInterval * 2^k
                       /\ num > 180 * bestInterval * 2^(k - 1)
                       /\ ret.value = RoundBpm(num, bestInterval * 2^k)

\* Clicks two seconds apart: an estimate of 30, doubled twice.
C33_Witness ==
  /\ ret.fn = "detectBPM"
  /\ arg.fault = "none"
  /\ arg.truth = 30
  /\ arg.clicks = 3
  /\ ret.value = 120

\* C34: in every reachable glitch state, active is true exactly when mode
\* is STUTTER, REVERSE or PITCH_JUMP and false exactly when mode is NONE.
C34_ActiveIffMode ==
  /\ glitchState.mode \in {"NONE", "STUTTER", "REVERSE", "PITCH_JUMP"}
  /\ glitchState.active = (glitchState.mode \in {"STUTTER", "REVERSE", "PITCH_JUMP"})
  /\ (~glitchState.active) = (glitchState.mode = "NONE")

\* A burst was entered and has expired: the state is inactive with mode
\* NONE again, in a tick later than the end time of the burst.
C34_Witness ==
  /\ InTick
  /\ glitchState.endTime > 0
  /\ now > glitchState.endTime
  /\ ~glitchState.active
  /\ glitchState.mode = "NONE"

\* C35: frozenOffset differs from the unset value -1 only while a STUTTER
\* burst is active: it is -1 whenever mode is NONE, REVERSE or PITCH_JUMP,
\* and it is -1 when a burst starts.
C35_FrozenOnlyInStutter ==
  /\ [](glitchState.mode # "STUTTER" => glitchState.frozenOffset = Unset)
  /\ [][(~glitchState.active /\ glitchState'.active)
          => glitchState'.frozenOffset = Unset]_vars

\* A STUTTER burst with an offset frozen by one of its grains.
C35_Witness ==
  /\ InTick
  /\ Stuttering(glitchState)
  /\ glitchState.frozenOffset # Unset
  /\ glitchState.frozenOffset >= 0
  /\ stutterFirst # NoFirst

\* C36: two bursts never run back to back: the only step that ends a burst
\* is a tick later than its end time, that tick leaves the state inactive
\* (no new burst is entered in it), and the grains of a tick without a
\* burst are all scheduled with mode NONE.
C36_NoBackToBack ==
  /\ [][(glitchState.active
           /\ (~glitchState'.active \/ glitchState'.endTime # glitchState.endTime))
          => /\ pc = "idle"
             /\ now' > glitchState.endTime
             /\ ~glitchState'.active
             /\ glitchState'.mode = "NONE"]_vars
  /\ [][(glitchState.active /\ now' > glitchState.endTime) => ~glitchState'.active]_vars
  /\ []((voice # NoVoice /\ ~glitchState.active) => voice.mode = "NONE")

\* The tick in which a burst expired, at full chaos: it has scheduled a
\* grain with mode NONE.
C36_Witness ==
  /\ InTick
  /\ globalParams.chaos = 1000
  /\ glitchState.endTime > 0
  /\ ~glitchState.active
  /\ now > glitchState.endTime
  /\ now - lookahead <= glitchState.endTime
  /\ voice # NoVoice
  /\ voice.mode = "NONE"

\* C37: the frozen stutter offset is shared by all orbs: in a STUTTER burst a
\* voice of another orb than the one whose grain recorded the offset starts
\* at the recorded offset reduced modulo its own buffer duration.
C37_FrozenShared ==
  (pc = "advance" /\ voice # NoVoice /\ voice.mode = "STUTTER"
     /\ stutterFirst # NoFirst /\ voice.id # stutterFirst.id)
    => voice.offset = WrapOffset(stutterFirst.raw, orbs[cur].buffer)

\* C38: with an LFO depth of at most 1 and a positive tempo, a voice plays
\* backwards only if it was built in a REVERSE burst: the rate of a voice
\* built in NONE, STUTTER or PITCH_JUMP is never negative.
C38_BackwardsOnlyInReverse ==
  (voice # NoVoice /\ voice.rate < 0) => voice.mode = "REVERSE"

\* A voice built in a REVERSE burst under beat-sync plays backwards.
C38_Witness ==
  /\ voice # NoVoice
  /\ voice.mode = "REVERSE"
  /\ voice.rate < 0
  /\ globalParams.beatSync
  /\ orbs[cur].params.lfoTarget = "pitch"

\* C39: every connection joins two distinct orbs that both exist.
C39_ConnectionsValid ==
  \A i \in 1..Len(canvas.connections) :
    LET c == canvas.connections[i]
        ids == {canvas.orbs[k] : k \in 1..Len(canvas.orbs)}
    IN  /\ c.fromOrbId # c.toOrbId
        /\ c.fromOrbId \in ids
        /\ c.toOrbId \in ids

====
